---- MODULE Spec2Model ----
(***************************************************************************)
(* Lifecycle state machine of one digdug Tunnel (src/src/Tunnel.ts):       *)
(* start(), stop(), cancellation of the start task, the child process      *)
(* events the tunnel listens to, and the handlers chained on the start     *)
(* and stop promises.                                                      *)
(*                                                                         *)
(* One step of the model is one turn of the JavaScript event loop: a call  *)
(* made by the user of the Tunnel, or one event (download settled, child   *)
(* 'data' / 'error' / 'exit', stderr 'close') together with the promise    *)
(* reactions it triggers, which run as microtasks before any other event.  *)
(*                                                                         *)
(* Every start() that begins a new attempt gets the next attempt number;   *)
(* the attempt's start task and the child it spawns carry that number.     *)
(*                                                                         *)
(* Task is a library type.  The model takes from it what Tunnel.ts relies  *)
(* on: cancel() acts only on a pending task, runs the canceler given to    *)
(* the Task constructor and then the callback registered with finally();   *)
(* a settled or cancelled task ignores later resolve/reject calls.  Whether *)
(* a cancelled task afterwards rejects with a CancelError (the case line   *)
(* 541 tests for) or stays unsettled is left open: both are behaviours of  *)
(* the model.                                                              *)
(***************************************************************************)
EXTENDS Integers, Sequences, FiniteSets, TLC

\* Number of start attempts one behaviour may begin.
MaxAttempts == 2

\* Number of kill() calls one child may receive.
MaxKills == 2

\* The exit code of a child terminated by a signal, and the initial value of
\* the exitCode closure variable of _makeChild (null).
NullCode == -1

\* Codes an 'exit' event can carry: a number, or null after a signal.  The
\* code tests no number against another, so one number stands for all.
ExitCodes == {1, NullCode}

Attempts == 1..MaxAttempts

\* The value of a variable that holds no error.
NoError == [reason |-> "none", detail |-> "none", text |-> <<>>, code |-> NullCode]

VARIABLES
    isStarting,   \* Tunnel.isStarting
    isRunning,    \* Tunnel.isRunning
    isStopping,   \* Tunnel.isStopping
    startTask,    \* Tunnel._startTask: attempt number, 0 for null
    process,      \* Tunnel._process: child (attempt) number, 0 for null
    handle,       \* Tunnel._handle: children whose listeners it holds, {} for null
    downloaded,   \* Tunnel.isDownloaded: the executable is present on disk
    nAttempts,    \* attempts begun so far
    task,         \* state of each attempt's start task
    dl,           \* state of each attempt's download() task
    child,        \* state of each attempt's child process
    stderrOpen,   \* the child's stderr has not been seen to 'close'
    exitCode,     \* closure variable exitCode of _makeChild
    fin,          \* the finally step of the _makeChild task
    kills,        \* number of child.kill() calls made on each child
    emitted,      \* status events emitted for each attempt
    stopPhase,    \* state of the promise returned by the latest stop()
    stopWait,     \* child whose 'exit' _stop() waits for, 0 for none
    stopResult,   \* value the stop() promise resolved with
    lastCall,     \* the latest call on the Tunnel and its synchronous outcome
    selTask,      \* SeleniumTunnel._start: state of the task it returns
    selError,     \* message of the error that task was rejected with
    selChild,     \* state of the Selenium server process
    selStderrOpen,\* its stderr has not been seen to 'close'
    selExitCode,  \* closure variable exitCode of _makeChild for that child
    selDetector,  \* the stderr 'data' listener of _start() is attached
    selKills,     \* signals sent to the Selenium server process
    selReceived,  \* chunks the process has written to stderr
    selErrorMessage, \* closure variable errorMessage of _makeChild for that child
    selDetail,    \* what follows 'Tunnel failed to start: ' in the rejection
    selExitAt,    \* number of chunks written when the process exited, -1 before
    bsTask,       \* BrowserStackTunnel._start: state of the task it returns
    bsError,      \* message of the error that task was rejected with
    bsChild,      \* state of the BrowserStackLocal process
    bsStderrOpen, \* its stderr has not been seen to 'close'
    bsExitCode,   \* closure variable exitCode of _makeChild for that child
    bsListener,   \* the stdout 'data' listener of _start() is attached
    bsReceived,   \* chunks the process has written to stdout
    bsEmitted,    \* status events the listener has emitted
    configs,      \* WebDriverTunnel.webDriverConfigs: the artifacts of the tunnel
    noDownload,   \* the artifacts whose config has noDownload set
    onDisk,       \* the artifacts whose executable exists on disk
    downloads,    \* the download() calls made and the requests each one issued
    maxConnectAttempts, \* WebDriverProxy.config.maxConnectAttempts
    webDriverMap, \* WebDriverProxy.webDriverMap: session id -> driver, 0 for none
    requests,     \* the new-session requests the proxy has received
    webDrivers,   \* the WebDriver objects the child factory has built
    lastUsedPort, \* WebDriverTunnel.lastUsedPort
    httpServer,   \* WebDriverProxy.httpServer: none before start()
    stopPromise,  \* the promise returned by WebDriverProxy.stop()
    exchange,     \* the latest request other than a new-session request,
                  \* with what the proxy did for it
    dcWebDriver,  \* the promise createWebDriverChild returns
    dcTask,       \* state of the task makeChildWithCommand returns
    dcError,      \* the error that task was rejected with
    dcChild,      \* state of the driver process
    dcExitted,    \* the process has emitted 'exit' (closure variable exitted)
    dcStderrClosed, \* its stderr has emitted 'close' (closure variable stderrClosed)
    dcErrorMessage, \* closure variable errorMessage of makeChildWithCommand
    dcTimer,      \* the startupWait timer of the child executor
    dcWritten,    \* chunks the process has written to stdout and stderr
    dcFin,        \* the finally step of the makeChildWithCommand task after a cancel
    dcKills,      \* signals the canceler has sent to the driver process
    dcCancel      \* outcome of the latest cancel() call on the task

tunnelVars == <<isStarting, isRunning, isStopping, startTask, process, handle>>
attemptVars == <<nAttempts, task, dl, child, stderrOpen, exitCode, fin, kills, emitted>>
stopVars == <<stopPhase, stopWait, stopResult>>
lifecycleVars == <<tunnelVars, attemptVars, stopVars, downloaded, lastCall>>
seleniumVars == <<selTask, selError, selChild, selStderrOpen, selExitCode,
                  selDetector, selKills, selReceived, selErrorMessage, selDetail,
                  selExitAt>>
browserStackVars == <<bsTask, bsError, bsChild, bsStderrOpen, bsExitCode,
                      bsListener, bsReceived, bsEmitted>>
downloadVars == <<configs, noDownload, onDisk, downloads>>
proxyVars == <<maxConnectAttempts, webDriverMap, requests, webDrivers,
               lastUsedPort, httpServer, stopPromise, exchange>>
driverChildVars == <<dcWebDriver, dcTask, dcError, dcChild, dcExitted, dcStderrClosed,
                     dcErrorMessage, dcTimer, dcWritten, dcFin, dcKills, dcCancel>>
vars == <<lifecycleVars, seleniumVars, browserStackVars, downloadVars, proxyVars,
          driverChildVars>>

\* What the actions of one component leave alone.
notLifecycle == <<seleniumVars, browserStackVars, downloadVars, proxyVars,
    driverChildVars>>
notSelenium == <<lifecycleVars, browserStackVars, downloadVars, proxyVars,
    driverChildVars>>
notBrowserStack == <<lifecycleVars, seleniumVars, downloadVars, proxyVars,
    driverChildVars>>
notDownload == <<lifecycleVars, seleniumVars, browserStackVars, proxyVars,
    driverChildVars>>
notProxy == <<lifecycleVars, seleniumVars, browserStackVars, downloadVars,
    driverChildVars>>
notDriverChild == <<lifecycleVars, seleniumVars, browserStackVars, downloadVars,
    proxyVars>>

NoCall == [op |-> "none", res |-> "none", task |-> 0]

\* A Tunnel after construction.
TunnelInit ==
    /\ isStarting = FALSE
    /\ isRunning = FALSE
    /\ isStopping = FALSE
    /\ startTask = 0
    /\ process = 0
    /\ handle = {}
    /\ downloaded \in BOOLEAN
    /\ nAttempts = 0
    /\ task = [a \in Attempts |-> "none"]
    /\ dl = [a \in Attempts |-> "none"]
    /\ child = [a \in Attempts |-> "none"]
    /\ stderrOpen = [a \in Attempts |-> FALSE]
    /\ exitCode = [a \in Attempts |-> NullCode]
    /\ fin = [a \in Attempts |-> "none"]
    /\ kills = [a \in Attempts |-> 0]
    /\ emitted = [a \in Attempts |-> <<>>]
    /\ stopPhase = "none"
    /\ stopWait = 0
    /\ stopResult = NullCode
    /\ lastCall = NoCall

\* No Selenium server has been started.
SeleniumInit ==
    /\ selTask = "none"
    /\ selError = ""
    /\ selChild = "none"
    /\ selStderrOpen = FALSE
    /\ selExitCode = NullCode
    /\ selDetector = FALSE
    /\ selKills = 0
    /\ selReceived = <<>>
    /\ selErrorMessage = <<>>
    /\ selDetail = NoError
    /\ selExitAt = -1

\* No BrowserStackLocal has been started.
BrowserStackInit ==
    /\ bsTask = "none"
    /\ bsError = <<>>
    /\ bsChild = "none"
    /\ bsStderrOpen = FALSE
    /\ bsExitCode = NullCode
    /\ bsListener = FALSE
    /\ bsReceived = <<>>
    /\ bsEmitted = <<>>

\* Artifacts a tunnel may be configured with: two of the WebDriver
\* executables stand for all of them.
Artifacts == {"chrome", "firefox"}

\* A tunnel with a single artifact, not yet on disk; no download() call.
DownloadIdle ==
    /\ configs = {"chrome"}
    /\ noDownload = {}
    /\ onDisk = {}
    /\ downloads = <<>>

\* A tunnel with any artifacts, any of them marked noDownload and any of
\* them on disk already; no download() call.
DownloadInit ==
    /\ configs \in (SUBSET Artifacts) \ {{}}
    /\ noDownload \in SUBSET configs
    /\ onDisk \in SUBSET configs
    /\ downloads = <<>>

(***************************************************************************)
(* Session creation in the WebDriver proxy (src/src/lib/WebDriverProxy.ts) *)
(* with the child factory the WebDriver tunnel gives it                    *)
(* (src/src/WebDriverTunnel.ts).  A new-session request r asks the factory *)
(* for a driver; the factory builds a new WebDriver object for every call, *)
(* so the driver of request r is called driver r.                          *)
(*                                                                         *)
(* JSON values are tagged records: null, a string, a number, or an object  *)
(* holding a record of JSON values.                                        *)
(***************************************************************************)

\* Number of new-session requests in one behaviour.
MaxRequests == 2

\* The default of the maxConnectAttempts option.
DefaultMaxConnectAttempts == 3

Requests == 1..MaxRequests

JNull == [type |-> "null"]
JStr(s) == [type |-> "string", str |-> s]
JNum(n) == [type |-> "number", num |-> n]
JObj(o) == [type |-> "object", obj |-> o]

\* The value of a missing property, and of a function that returns nothing.
Undefined == [type |-> "undefined"]

\* JavaScript truthiness of a value.
Truthy(v) ==
    \/ v.type = "object"
    \/ v.type = "string" /\ v.str # ""
    \/ v.type = "number" /\ v.num # 0

\* webDriverErrorFactory(code, message)
WebDriverErrorFactory(code, message) ==
    JObj([value |-> JObj([error |-> JStr(code), message |-> JStr(message)])])

SessionIds == {"s1", "s2"}
SessionOrder == <<"s1", "s2">>

\* The default of the port option, from which lastUsedPort starts.
BasePort == 4444

\* The default of the pathname option, /wd/hub/, as its parts.
ProxyPath == <<"wd", "hub">>

\* Browser names with a configuration in webDriverConfigs, and the values
\* of desiredCapabilities.browserName a request may carry: one of these, a
\* name without a configuration, or none.
ConfiguredBrowsers == {"chrome", "firefox"}
BrowserNameInputs == ConfiguredBrowsers \cup {"opera", ""}

\* Paths of requests other than POST {path}session and GET {path}sessions.
RequestPaths ==
    {ProxyPath \o <<"session", id>> : id \in SessionIds} \cup {ProxyPath \o <<"status">>}

\* Bodies a driver may answer a new-session request with: the JSON Wire
\* and the W3C success reply, a W3C and a JSON Wire error reply, the body
\* null, and an object whose value is null.
Payloads ==
    {JObj([sessionId |-> JStr(s), status |-> JNum(0),
           value |-> JObj([browserName |-> JStr("chrome")])]) : s \in SessionIds}
    \cup
    {JObj([value |-> JObj([sessionId |-> JStr(s),
                           capabilities |-> JObj([browserName |-> JStr("chrome")])])]) :
        s \in SessionIds}
    \cup
    {JObj([value |-> JObj([error |-> JStr("session not created"),
                           message |-> JStr("cannot find the browser binary")])]),
     JObj([sessionId |-> JNull, status |-> JNum(33),
           value |-> JObj([message |-> JStr("session not created")])]),
     JNull,
     JObj([value |-> JNull])}

\* getSessionIdFromBody(body).  The in operator throws a TypeError on a
\* right operand that is not an object.
RECURSIVE GetSessionIdFromBody(_)
GetSessionIdFromBody(body) ==
    IF body.type # "object" THEN [throws |-> TRUE, value |-> Undefined]
    ELSE IF "id" \in DOMAIN body.obj THEN [throws |-> FALSE, value |-> body.obj.id]
    ELSE IF "sessionId" \in DOMAIN body.obj
    THEN [throws |-> FALSE, value |-> body.obj.sessionId]
    ELSE IF "value" \in DOMAIN body.obj THEN GetSessionIdFromBody(body.obj.value)
    ELSE [throws |-> FALSE, value |-> Undefined]

\* newSessionInfo.value && newSessionInfo.value.error, for an object.
HasValueError(data) ==
    /\ "value" \in DOMAIN data.obj
    /\ Truthy(data.obj.value)
    /\ data.obj.value.type = "object"
    /\ "error" \in DOMAIN data.obj.value.obj
    /\ Truthy(data.obj.value.obj.error)

NoSessionInformation ==
    WebDriverErrorFactory("session not created",
        "Request for a new %s session did not return session information.")

\* A handler that takes the session id from the sessionId property only.
HandleNewSessionResponse_topLevelOnly(data) ==
    IF ~Truthy(data)
    THEN [throws |-> FALSE, sessionId |-> Undefined, errorResponse |-> NoSessionInformation]
    ELSE IF data.type = "object" /\ "sessionId" \in DOMAIN data.obj
              /\ Truthy(data.obj.sessionId)
    THEN [throws |-> FALSE, sessionId |-> data.obj.sessionId, errorResponse |-> Undefined]
    ELSE [throws |-> FALSE, sessionId |-> Undefined, errorResponse |-> NoSessionInformation]

\* handleNewSessionResponse(webDriver, data): the session id it registers,
\* or the error response it returns, or the exception it lets through.
HandleNewSessionResponse(data) ==
    IF ~Truthy(data)
    THEN [throws |-> FALSE, sessionId |-> Undefined, errorResponse |-> NoSessionInformation]
    ELSE LET id == GetSessionIdFromBody(data) IN
         IF id.throws
         THEN [throws |-> TRUE, sessionId |-> Undefined, errorResponse |-> Undefined]
         ELSE IF Truthy(id.value)
         THEN [throws |-> FALSE, sessionId |-> id.value, errorResponse |-> Undefined]
         ELSE IF HasValueError(data)
         THEN [throws |-> FALSE, sessionId |-> Undefined, errorResponse |-> data]
         ELSE [throws |-> FALSE, sessionId |-> Undefined,
               errorResponse |-> NoSessionInformation]

\* A check that gives up one attempt early.
CheckNewSessionError_oneFewer(failedInitAttempts) ==
    [failedInitAttempts |-> failedInitAttempts + 1,
     limit |-> failedInitAttempts + 1 >= maxConnectAttempts - 1]

\* A check that allows one attempt more than the limit.
CheckNewSessionError_offByOne(failedInitAttempts) ==
    [failedInitAttempts |-> failedInitAttempts + 1,
     limit |-> failedInitAttempts + 1 > maxConnectAttempts]

\* checkNewSessionError(webDriver, error) for an error: the incremented
\* counter and whether the limit is reached.
CheckNewSessionError(failedInitAttempts) ==
    [failedInitAttempts |-> failedInitAttempts + 1,
     limit |-> failedInitAttempts + 1 >= maxConnectAttempts]

NoResponse == [status |-> 0, body |-> Undefined]

\* A new-session request not yet made, and the driver it has not got.
NoRequest == [phase |-> "none", upstream |-> 0, factoryCalls |-> 0, response |-> NoResponse]
NoWebDriver == [spawned |-> FALSE, failedInitAttempts |-> 0, stops |-> 0,
                sessionInfo |-> Undefined, name |-> "", port |-> 0,
                process |-> "none"]

NoExchange == [kind |-> "none", sessionId |-> "", port |-> 0, path |-> <<>>,
               status |-> 0, sessions |-> <<>>]

\* What the constructors of WebDriverTunnel and WebDriverProxy set apart
\* from the attempt limit.
ProxyConstructed ==
    /\ webDriverMap = [s \in SessionIds |-> 0]
    /\ requests = [r \in Requests |-> NoRequest]
    /\ webDrivers = [r \in Requests |-> NoWebDriver]
    /\ lastUsedPort = BasePort
    /\ httpServer = "none"
    /\ stopPromise = "none"
    /\ exchange = NoExchange

\* A proxy after construction, with the default attempt limit.
ProxyIdle ==
    /\ maxConnectAttempts = DefaultMaxConnectAttempts
    /\ ProxyConstructed

\* A proxy after construction, with any positive attempt limit up to the
\* default.
ProxyInit ==
    /\ maxConnectAttempts \in 1..DefaultMaxConnectAttempts
    /\ ProxyConstructed

\* createWebDriverChild has not been called.
DriverChildInit ==
    /\ dcWebDriver = [state |-> "none", error |-> NoError]
    /\ dcTask = "none"
    /\ dcError = NoError
    /\ dcChild = "none"
    /\ dcExitted = FALSE
    /\ dcStderrClosed = FALSE
    /\ dcErrorMessage = <<>>
    /\ dcTimer = "none"
    /\ dcWritten = 0
    /\ dcFin = "none"
    /\ dcKills = 0
    /\ dcCancel = "none"

Init ==
    /\ TunnelInit
    /\ SeleniumInit
    /\ BrowserStackInit
    /\ DownloadIdle
    /\ ProxyIdle
    /\ DriverChildInit

(***************************************************************************)
(* Guards of start() and stop()                                            *)
(***************************************************************************)

\* start() without the Starting check: a call while Starting begins anew.
StartOutcome_noStartingCheck ==
    IF isRunning THEN "Tunnel is already running"
    ELSE IF isStopping THEN "Previous tunnel is still terminating"
    ELSE "new"

\* start() without the Running / Stopping checks.
StartOutcome_noThrow ==
    IF isStarting THEN "existing" ELSE "new"

\* What a start() call does in the current state: the message it throws,
\* "existing" (returns _startTask) or "new" (begins an attempt).
StartOutcome ==
    IF isRunning THEN "Tunnel is already running"
    ELSE IF isStopping THEN "Previous tunnel is still terminating"
    ELSE IF isStarting THEN "existing"
    ELSE "new"

\* stop() without the fail-fast checks.
StopOutcome_noThrow ==
    IF isStarting THEN "cancel" ELSE "stop"

\* stop() without the Starting branch: a Starting tunnel is stopped like a
\* Running one.
StopOutcome_noCancel ==
    IF isStopping THEN "Tunnel is already terminating"
    ELSE IF ~isRunning /\ ~isStarting THEN "Tunnel is not running"
    ELSE "stop"

\* What a stop() call does in the current state: the message it throws,
\* "cancel" (cancels _startTask and returns) or "stop" (runs _stop()).
StopOutcome ==
    IF isStopping THEN "Tunnel is already terminating"
    ELSE IF isStarting THEN "cancel"
    ELSE IF ~isRunning THEN "Tunnel is not running"
    ELSE "stop"

(***************************************************************************)
(* Handlers chained on the start task and on the stop promise, as the      *)
(* assignments they make.                                                  *)
(***************************************************************************)

\* The success handler without the isRunning assignment.
StartThen_notRunning ==
    [startTask |-> 0, isStarting |-> FALSE, isRunning |-> FALSE, status |-> <<"Ready">>]

\* The success handler emitting its status twice.
StartThen_twice ==
    [startTask |-> 0, isStarting |-> FALSE, isRunning |-> TRUE, status |-> <<"Ready", "Ready">>]

\* _startTask.then(...): the start task resolved.
StartThen ==
    [startTask |-> 0, isStarting |-> FALSE, isRunning |-> TRUE, status |-> <<"Ready">>]

\* The failure handler leaving isStarting set.
StartCatch_staysStarting(errorName) ==
    [startTask |-> 0, isStarting |-> TRUE,
     status |-> <<IF errorName = "CancelError" THEN "Start cancelled"
                  ELSE "Failed to start tunnel">>]

\* _startTask.catch(...): the start task rejected with an error of that name.
StartCatch(errorName) ==
    [startTask |-> 0, isStarting |-> FALSE,
     status |-> <<IF errorName = "CancelError" THEN "Start cancelled"
                  ELSE "Failed to start tunnel">>]

\* The stop success handler resolving with 0 whatever the child reported.
StopThen_zero(returnValue) ==
    [process |-> 0, handle |-> {}, isRunning |-> FALSE, isStopping |-> FALSE,
     value |-> 0]

\* The stop success handler keeping the process reference.
StopThen_keepsProcess(returnValue) ==
    [process |-> process, handle |-> handle, isRunning |-> FALSE, isStopping |-> FALSE,
     value |-> returnValue]

\* _stop().then(...): the stop sequence resolved with returnValue.
StopThen(returnValue) ==
    [process |-> 0, handle |-> {}, isRunning |-> FALSE, isStopping |-> FALSE,
     value |-> returnValue]

\* The stop failure handler not reverting to Running.
StopCatch_noRevert ==
    [isRunning |-> FALSE, isStopping |-> FALSE]

\* _stop().catch(...): the stop sequence rejected.
StopCatch ==
    [isRunning |-> TRUE, isStopping |-> FALSE]

(***************************************************************************)
(* The task created by _makeChild                                          *)
(***************************************************************************)

\* Listeners that stay attached, and settle the task again, after the task
\* has settled.
Listening_forever(a) == child[a] # "none" /\ task[a] \in {"pending", "fulfilled", "rejected"}

\* The _makeChild listeners (and the detector's) are attached: the child is
\* spawned and handle.destroy() of the finally step has not run.
Listening(a) == child[a] # "none" /\ task[a] = "pending"

\* A finally step that never waits for the child.
FinallyStep_noWait(canceled) == "done"

\* task.finally(...): destroys the handle; after a cancellation it returns a
\* promise that settles on the child's next 'exit' event.
FinallyStep(canceled) == IF canceled THEN "waiting" ELSE "done"

\* A canceler that does not kill the child.
CancelerKills_none(a) == kills[a]

\* The canceler of the _makeChild task: child.kill('SIGINT').
CancelerKills(a) == kills[a] + 1

\* A close listener rejecting whether or not the child has exited.
CloseRejects_always(a) == TRUE

\* The stderr 'close' listener: handleChildExit() if an exit code is stored.
CloseRejects(a) == exitCode[a] # NullCode

\* The 'exit' listener of _makeChild: handleChildExit() if stderr has closed.
ExitRejects(a) == ~stderrOpen[a]

\* A detector that takes output on stderr for a failure.
DetectorSettles_stderrRejects(stream) ==
    IF stream = "stderr" THEN "rejected" ELSE "fulfilled"

\* The detector of the base _start(): the 'data' listeners on stdout and on
\* stderr are both resolve.
DetectorSettles(stream) == "fulfilled"

\* An 'exit' listener in _handle that leaves isRunning as it is.
HandleExit_keepsRunning ==
    [isStarting |-> FALSE, isRunning |-> isRunning]

\* The 'exit' listener start() adds to _handle: the assignments it makes.
\* It emits no event.
HandleExit ==
    [isStarting |-> FALSE, isRunning |-> FALSE]

(***************************************************************************)
(* Calls on the Tunnel                                                     *)
(***************************************************************************)

\* Task.cancel() on the start task of attempt a, cancelError telling whether
\* the cancelled task goes on to reject with a CancelError.  A task that is
\* not pending is left alone.  Before the child is spawned the download is
\* cancelled and nothing is ever spawned; afterwards the canceler of
\* _makeChild kills the child and the finally step destroys the listeners
\* and waits for the child's 'exit'.
CancelTask(a, cancelError) ==
    IF task[a] # "pending"
    THEN UNCHANGED <<task, dl, fin, kills, emitted, startTask, isStarting>>
    ELSE IF child[a] = "none"
    THEN /\ task' = [task EXCEPT ![a] = "canceled"]
         /\ dl' = [dl EXCEPT ![a] = "canceled"]
         /\ UNCHANGED <<fin, kills>>
         /\ IF cancelError
            THEN /\ startTask' = StartCatch("CancelError").startTask
                 /\ isStarting' = StartCatch("CancelError").isStarting
                 /\ emitted' = [emitted EXCEPT ![a] = @ \o StartCatch("CancelError").status]
            ELSE UNCHANGED <<startTask, isStarting, emitted>>
    ELSE /\ kills[a] < MaxKills
         /\ task' = [task EXCEPT ![a] = "canceled"]
         /\ kills' = [kills EXCEPT ![a] = CancelerKills(a)]
         /\ fin' = [fin EXCEPT ![a] = FinallyStep(TRUE)]
         /\ UNCHANGED <<dl, emitted, startTask, isStarting>>

\* start() throws: the Tunnel is Running or Stopping.
StartThrows ==
    /\ StartOutcome \notin {"existing", "new"}
    /\ lastCall' = [op |-> "start", res |-> StartOutcome, task |-> 0]
    /\ UNCHANGED <<tunnelVars, attemptVars, stopVars, downloaded>>
    /\ UNCHANGED notLifecycle

\* start() while Starting: returns this._startTask.
StartExisting ==
    /\ StartOutcome = "existing"
    /\ lastCall' = [op |-> "start", res |-> "task", task |-> startTask]
    /\ UNCHANGED <<tunnelVars, attemptVars, stopVars, downloaded>>
    /\ UNCHANGED notLifecycle

\* start() on an idle Tunnel: sets isStarting and builds _startTask from
\* download(), which is already resolved when the executable is present and
\* a request in flight otherwise.  The child is spawned by a later step.
StartNew ==
    /\ StartOutcome = "new"
    /\ nAttempts < MaxAttempts
    /\ LET a == nAttempts + 1 IN
        /\ nAttempts' = a
        /\ isStarting' = TRUE
        /\ startTask' = a
        /\ task' = [task EXCEPT ![a] = "pending"]
        /\ dl' = [dl EXCEPT ![a] = IF downloaded THEN "present" ELSE "requesting"]
        /\ lastCall' = [op |-> "start", res |-> "task", task |-> a]
    /\ UNCHANGED <<isRunning, isStopping, process, handle, child, stderrOpen,
                   exitCode, fin, kills, emitted, stopVars, downloaded>>
    /\ UNCHANGED notLifecycle

\* stop() throws: the Tunnel is Stopping, or neither Starting nor Running.
StopThrows ==
    /\ StopOutcome \notin {"cancel", "stop"}
    /\ lastCall' = [op |-> "stop", res |-> StopOutcome, task |-> 0]
    /\ UNCHANGED <<tunnelVars, attemptVars, stopVars, downloaded>>
    /\ UNCHANGED notLifecycle

\* stop() while Starting: this._startTask.cancel(), then returns undefined.
\* With no start task the call fails on the null reference.
StopCancels ==
    /\ StopOutcome = "cancel"
    /\ IF startTask = 0
       THEN /\ lastCall' = [op |-> "stop", res |-> "TypeError", task |-> 0]
            /\ UNCHANGED <<task, dl, fin, kills, emitted, startTask, isStarting>>
       ELSE /\ lastCall' = [op |-> "stop", res |-> "undefined", task |-> startTask]
            /\ \E cancelError \in BOOLEAN : CancelTask(startTask, cancelError)
    /\ UNCHANGED <<isRunning, isStopping, process, handle, nAttempts, child,
                   stderrOpen, exitCode, stopVars, downloaded>>
    /\ UNCHANGED notLifecycle

\* stop() while Running: enters Stopping and runs _stop().  The base _stop()
\* registers a once('exit') listener on _process and kills it; it rejects
\* when _process is null.  An overriding _stop() (the Selenium tunnel's
\* shutdown request) may fail before the child is signalled.
StopRunning ==
    /\ StopOutcome = "stop"
    /\ isRunning' = FALSE
    /\ isStopping' = TRUE
    /\ lastCall' = [op |-> "stop", res |-> "promise", task |-> 0]
    /\ \E sequenceFails \in BOOLEAN :
        IF sequenceFails \/ process = 0
        THEN /\ stopPhase' = "failing"
             /\ stopWait' = 0
             /\ UNCHANGED kills
        ELSE /\ kills[process] < MaxKills
             /\ stopPhase' = "waiting"
             /\ stopWait' = process
             /\ kills' = [kills EXCEPT ![process] = @ + 1]
    /\ UNCHANGED <<isStarting, startTask, process, handle, nAttempts, task, dl,
                   child, stderrOpen, exitCode, fin, emitted, stopResult, downloaded>>
    /\ UNCHANGED notLifecycle

\* The user cancels the start task it was given for attempt a: a call on
\* the task, not on the Tunnel.
Cancel(a) ==
    /\ task[a] = "pending"
    /\ UNCHANGED lastCall
    /\ \E cancelError \in BOOLEAN : CancelTask(a, cancelError)
    /\ UNCHANGED <<isRunning, isStopping, process, handle, nAttempts, child,
                   stderrOpen, exitCode, stopVars, downloaded>>
    /\ UNCHANGED notLifecycle

(***************************************************************************)
(* Events                                                                  *)
(***************************************************************************)

\* The download() task of attempt a resolves; the then-callback of start()
\* calls _start(), which spawns the child, and the executor stores it in
\* _process and adds its listeners to _handle.
DownloadResolves(a) ==
    /\ task[a] = "pending"
    /\ dl[a] \in {"present", "requesting"}
    /\ dl' = [dl EXCEPT ![a] = "done"]
    /\ downloaded' = TRUE
    /\ child' = [child EXCEPT ![a] = "alive"]
    /\ stderrOpen' = [stderrOpen EXCEPT ![a] = TRUE]
    /\ process' = a
    /\ handle' = handle \cup {a}
    /\ UNCHANGED <<isStarting, isRunning, isStopping, startTask, nAttempts, task,
                   exitCode, fin, kills, emitted, stopVars, lastCall>>
    /\ UNCHANGED notLifecycle

\* The download request of attempt a fails; the start task rejects.
DownloadFails(a) ==
    /\ task[a] = "pending"
    /\ dl[a] = "requesting"
    /\ dl' = [dl EXCEPT ![a] = "failed"]
    /\ task' = [task EXCEPT ![a] = "rejected"]
    /\ startTask' = StartCatch("Error").startTask
    /\ isStarting' = StartCatch("Error").isStarting
    /\ emitted' = [emitted EXCEPT ![a] = @ \o StartCatch("Error").status]
    /\ UNCHANGED <<isRunning, isStopping, process, handle, nAttempts, child,
                   stderrOpen, exitCode, fin, kills, stopVars, downloaded, lastCall>>
    /\ UNCHANGED notLifecycle

\* The child of attempt a writes to stdout or stderr while the detector is
\* attached: the default detector resolves the start task.
ChildData(a, stream) ==
    /\ Listening(a)
    /\ child[a] \in {"alive", "exited"}
    /\ stream = "stderr" => stderrOpen[a]
    /\ task' = [task EXCEPT ![a] = DetectorSettles(stream)]
    /\ fin' = [fin EXCEPT ![a] = FinallyStep(FALSE)]
    /\ IF DetectorSettles(stream) = "fulfilled"
       THEN /\ startTask' = StartThen.startTask
            /\ isStarting' = StartThen.isStarting
            /\ isRunning' = StartThen.isRunning
            /\ emitted' = [emitted EXCEPT ![a] = @ \o StartThen.status]
       ELSE /\ startTask' = StartCatch("Error").startTask
            /\ isStarting' = StartCatch("Error").isStarting
            /\ isRunning' = isRunning
            /\ emitted' = [emitted EXCEPT ![a] = @ \o StartCatch("Error").status]
    /\ UNCHANGED <<isStopping, process, handle, nAttempts, dl, child, stderrOpen,
                   exitCode, kills, stopVars, downloaded, lastCall>>
    /\ UNCHANGED notLifecycle

\* The child of attempt a emits 'error' (it could not be spawned) while the
\* detector is attached: the start task rejects.  Such a child never exits.
ChildError(a) ==
    /\ Listening(a)
    /\ child[a] = "alive"
    /\ kills[a] = 0
    /\ child' = [child EXCEPT ![a] = "failed"]
    /\ task' = [task EXCEPT ![a] = "rejected"]
    /\ fin' = [fin EXCEPT ![a] = FinallyStep(FALSE)]
    /\ startTask' = StartCatch("Error").startTask
    /\ isStarting' = StartCatch("Error").isStarting
    /\ emitted' = [emitted EXCEPT ![a] = @ \o StartCatch("Error").status]
    /\ UNCHANGED <<isRunning, isStopping, process, handle, nAttempts, dl,
                   stderrOpen, exitCode, kills, stopVars, downloaded, lastCall>>
    /\ UNCHANGED notLifecycle

\* The stderr of the child of attempt a closes while the _makeChild
\* listeners are attached (afterwards nothing listens for it): the start
\* task rejects if an exit code is stored.
StderrClose(a) ==
    /\ Listening(a)
    /\ stderrOpen[a]
    /\ stderrOpen' = [stderrOpen EXCEPT ![a] = FALSE]
    /\ IF CloseRejects(a)
       THEN /\ task' = [task EXCEPT ![a] = "rejected"]
            /\ fin' = [fin EXCEPT ![a] = FinallyStep(FALSE)]
            /\ startTask' = StartCatch("Error").startTask
            /\ isStarting' = StartCatch("Error").isStarting
            /\ emitted' = [emitted EXCEPT ![a] = @ \o StartCatch("Error").status]
       ELSE UNCHANGED <<task, fin, startTask, isStarting, emitted>>
    /\ UNCHANGED <<isRunning, isStopping, process, handle, nAttempts, dl, child,
                   exitCode, kills, stopVars, downloaded, lastCall>>
    /\ UNCHANGED notLifecycle

\* The child of attempt a emits 'exit' with the given code.  Its listeners
\* run in the order they were registered: the one of _makeChild (stores the
\* code, rejects if stderr has closed), the one start() put in _handle
\* (clears isStarting and isRunning), the one of the finally step of a
\* cancelled task, the one of _stop(); then the handlers of the promises
\* these settled.
ChildExit(a, code, cancelError) ==
    /\ child[a] = "alive"
    /\ child' = [child EXCEPT ![a] = "exited"]
    /\ LET rejects == Listening(a) /\ ExitRejects(a)
           inHandle == a \in handle
           cancelDone == fin[a] = "waiting"
           catchRuns == rejects \/ (cancelDone /\ cancelError)
           caught == StartCatch(IF rejects THEN "Error" ELSE "CancelError")
           stopDone == stopPhase = "waiting" /\ stopWait = a
           stopped == StopThen(code)
       IN
        /\ cancelError => cancelDone
        /\ exitCode' = [exitCode EXCEPT ![a] = IF Listening(a) THEN code ELSE @]
        /\ task' = [task EXCEPT ![a] = IF rejects THEN "rejected" ELSE @]
        /\ fin' = [fin EXCEPT ![a] = IF rejects THEN FinallyStep(FALSE)
                                     ELSE IF cancelDone THEN "done" ELSE @]
        /\ startTask' = IF catchRuns THEN caught.startTask ELSE startTask
        /\ isStarting' = IF catchRuns THEN caught.isStarting
                         ELSE IF inHandle THEN HandleExit.isStarting ELSE isStarting
        /\ emitted' = [emitted EXCEPT ![a] = IF catchRuns THEN @ \o caught.status ELSE @]
        /\ isRunning' = IF stopDone THEN stopped.isRunning
                        ELSE IF inHandle THEN HandleExit.isRunning ELSE isRunning
        /\ isStopping' = IF stopDone THEN stopped.isStopping ELSE isStopping
        /\ process' = IF stopDone THEN stopped.process ELSE process
        /\ handle' = IF stopDone THEN stopped.handle ELSE handle
        /\ stopPhase' = IF stopDone THEN "resolved" ELSE stopPhase
        /\ stopResult' = IF stopDone THEN stopped.value ELSE stopResult
        /\ stopWait' = IF stopDone THEN 0 ELSE stopWait
    /\ UNCHANGED <<nAttempts, dl, stderrOpen, kills, downloaded, lastCall>>
    /\ UNCHANGED notLifecycle

\* The promise of a failing stop sequence rejects; the catch handler of
\* stop() reverts the flags.
StopRejects ==
    /\ stopPhase = "failing"
    /\ stopPhase' = "rejected"
    /\ isRunning' = StopCatch.isRunning
    /\ isStopping' = StopCatch.isStopping
    /\ UNCHANGED <<isStarting, startTask, process, handle, attemptVars, stopWait,
                   stopResult, downloaded, lastCall>>
    /\ UNCHANGED notLifecycle

Next ==
    \/ StartThrows
    \/ StartExisting
    \/ StartNew
    \/ StopThrows
    \/ StopCancels
    \/ StopRunning
    \/ StopRejects
    \/ \E a \in Attempts : Cancel(a)
    \/ \E a \in Attempts : DownloadResolves(a)
    \/ \E a \in Attempts : DownloadFails(a)
    \/ \E a \in Attempts, stream \in {"stdout", "stderr"} : ChildData(a, stream)
    \/ \E a \in Attempts : ChildError(a)
    \/ \E a \in Attempts : StderrClose(a)
    \/ \E a \in Attempts, code \in ExitCodes, cancelError \in BOOLEAN :
          ChildExit(a, code, cancelError)

Spec == Init /\ [][Next]_vars

\* The detector of a subclass _start() (TestingBotTunnel: a 'SEVERE: '
\* line on stderr; BrowserStackTunnel: '*** Error:' on stdout;
\* SauceLabsTunnel: 'Error: ' on stdout) reads a failure in a chunk of
\* attempt a and rejects the start task.  It sends the child no signal.
DetectorFails(a, stream) ==
    /\ Listening(a)
    /\ child[a] \in {"alive", "exited"}
    /\ stream = "stderr" => stderrOpen[a]
    /\ task' = [task EXCEPT ![a] = "rejected"]
    /\ fin' = [fin EXCEPT ![a] = FinallyStep(FALSE)]
    /\ startTask' = StartCatch("Error").startTask
    /\ isStarting' = StartCatch("Error").isStarting
    /\ emitted' = [emitted EXCEPT ![a] = @ \o StartCatch("Error").status]
    /\ UNCHANGED <<isRunning, isStopping, process, handle, nAttempts, dl, child,
                   stderrOpen, exitCode, kills, stopVars, downloaded, lastCall>>
    /\ UNCHANGED notLifecycle

\* The Tunnel with the _start() of a subclass whose detector can report a
\* failure.
DetectorNext ==
    \/ Next
    \/ \E a \in Attempts, stream \in {"stdout", "stderr"} : DetectorFails(a, stream)

DetectorSpec == Init /\ [][DetectorNext]_vars

\* A child process ends at some time, and its stderr closes at some time.
FairSpec ==
    /\ Spec
    /\ \A a \in Attempts :
          /\ WF_vars(\E code \in ExitCodes, cancelError \in BOOLEAN :
                        ChildExit(a, code, cancelError))
          /\ WF_vars(StderrClose(a))

TypeOK ==
    /\ isStarting \in BOOLEAN /\ isRunning \in BOOLEAN /\ isStopping \in BOOLEAN
    /\ startTask \in 0..MaxAttempts
    /\ process \in 0..MaxAttempts
    /\ handle \subseteq Attempts
    /\ downloaded \in BOOLEAN
    /\ nAttempts \in 0..MaxAttempts
    /\ task \in [Attempts -> {"none", "pending", "fulfilled", "rejected", "canceled"}]
    /\ dl \in [Attempts -> {"none", "present", "requesting", "done", "failed", "canceled"}]
    /\ child \in [Attempts -> {"none", "alive", "exited", "failed"}]
    /\ stderrOpen \in [Attempts -> BOOLEAN]
    /\ exitCode \in [Attempts -> ExitCodes]
    /\ fin \in [Attempts -> {"none", "waiting", "done"}]
    /\ kills \in [Attempts -> 0..MaxKills]
    /\ stopPhase \in {"none", "waiting", "failing", "resolved", "rejected"}
    /\ stopWait \in 0..MaxAttempts
    /\ stopResult \in ExitCodes

(***************************************************************************)
(* Start detection of the Selenium tunnel (src/src/SeleniumTunnel.ts).     *)
(* _start() hands _makeChild an executor that listens to the server's      *)
(* stderr; the task it returns is the one start() chains its handlers on.  *)
(***************************************************************************)

\* Number of chunks the server may write to stderr in one behaviour.
MaxChunks == 2

\* Lines a Selenium server writes to stderr.
SeleniumLines ==
    {"INFO - Selenium Server is up and running",
     "java.net.BindException: Address already in use",
     "Port 4444 is busy, please choose a free port",
     "INFO - Launching a standalone Selenium Server"}

\* A chunk of stderr data, as the lines it carries.
SeleniumChunks == (SUBSET SeleniumLines) \ {{}}

\* data.indexOf('Selenium Server is up and running') > -1
IsUpAndRunning(chunk) == "INFO - Selenium Server is up and running" \in chunk

\* /Address already in use/.test(data)
IsAddressInUse(chunk) == "java.net.BindException: Address already in use" \in chunk

\* /Port \d+ is busy/.test(data)
IsPortBusy(chunk) == "Port 4444 is busy, please choose a free port" \in chunk

\* A detector that reports the bind failure and leaves the child alone.
SeleniumDetector_noKill(chunk) ==
    IF IsUpAndRunning(chunk)
    THEN [settle |-> "resolve", error |-> "", kill |-> FALSE]
    ELSE IF IsAddressInUse(chunk) \/ IsPortBusy(chunk)
    THEN [settle |-> "reject", error |-> "Address is already in use", kill |-> FALSE]
    ELSE [settle |-> "none", error |-> "", kill |-> FALSE]

\* A detector that does not know the 'Port <n> is busy' message.
SeleniumDetector_noPortBusy(chunk) ==
    IF IsUpAndRunning(chunk)
    THEN [settle |-> "resolve", error |-> "", kill |-> FALSE]
    ELSE IF IsAddressInUse(chunk)
    THEN [settle |-> "reject", error |-> "Address is already in use", kill |-> TRUE]
    ELSE [settle |-> "none", error |-> "", kill |-> FALSE]

\* The stderr 'data' listener of _start(): what it does with one chunk.
SeleniumDetector(chunk) ==
    IF IsUpAndRunning(chunk)
    THEN [settle |-> "resolve", error |-> "", kill |-> FALSE]
    ELSE IF IsAddressInUse(chunk) \/ IsPortBusy(chunk)
    THEN [settle |-> "reject", error |-> "Address is already in use", kill |-> TRUE]
    ELSE [settle |-> "none", error |-> "", kill |-> FALSE]

\* handleChildExit: the error the task is rejected with,
\* `Tunnel failed to start: ${errorMessage || `Exit code: ${exitCode}`}`.
HandleChildExit(errorMessage, code) ==
    IF errorMessage # <<>>
    THEN [reason |-> "Tunnel failed to start", detail |-> "stderr",
          text |-> errorMessage, code |-> NullCode]
    ELSE [reason |-> "Tunnel failed to start", detail |-> "exit code",
          text |-> <<>>, code |-> code]

\* An 'exit' listener that calls handleChildExit() at once.
SeleniumExitRejects_atOnce(stderrClosed) == TRUE

\* The 'exit' listener of _makeChild: if (stderrClosed) handleChildExit().
SeleniumExitRejects(stderrClosed) == stderrClosed

\* The stderr 'close' listener of _makeChild:
\* if (exitCode !== null) handleChildExit().
SeleniumCloseRejects(code) == code # NullCode

\* _start(): _makeChild spawns the server and runs the executor, which
\* attaches the detector.
SeleniumStart ==
    /\ selTask = "none"
    /\ selTask' = "pending"
    /\ selChild' = "alive"
    /\ selStderrOpen' = TRUE
    /\ selDetector' = TRUE
    /\ UNCHANGED <<selError, selExitCode, selKills, selReceived, selErrorMessage,
                   selDetail, selExitAt>>
    /\ UNCHANGED notSelenium

\* The server writes a chunk to stderr.  While the task is pending the
\* listener of _makeChild appends it to errorMessage.  The detector, if
\* attached, runs on it; resolve and reject act on a pending task only, the
\* kill is sent either way.  The handlers _start() chained on the task destroy the
\* detector once the task has settled.
SeleniumStderrData(chunk) ==
    /\ selChild \in {"alive", "exited"}
    /\ selStderrOpen
    /\ Len(selReceived) < MaxChunks
    /\ selReceived' = Append(selReceived, chunk)
    /\ selErrorMessage' = IF selTask = "pending"
                          THEN Append(selErrorMessage, chunk)
                          ELSE selErrorMessage
    /\ LET d == IF selDetector THEN SeleniumDetector(chunk)
                ELSE [settle |-> "none", error |-> "", kill |-> FALSE]
           settles == selTask = "pending" /\ d.settle # "none"
       IN
        /\ d.kill => selKills < MaxKills
        /\ selTask' = IF ~settles THEN selTask
                      ELSE IF d.settle = "resolve" THEN "fulfilled" ELSE "rejected"
        /\ selError' = IF settles /\ d.settle = "reject" THEN d.error ELSE selError
        /\ selDetector' = IF settles THEN FALSE ELSE selDetector
        /\ selKills' = IF d.kill THEN selKills + 1 ELSE selKills
    /\ UNCHANGED <<selChild, selStderrOpen, selExitCode, selDetail, selExitAt>>
    /\ UNCHANGED notSelenium

\* The server process emits 'exit'.  While the task is pending the
\* _makeChild listener stores the code and rejects if stderr has closed.
SeleniumChildExit(code) ==
    /\ selChild = "alive"
    /\ selChild' = "exited"
    /\ selExitAt' = Len(selReceived)
    /\ IF selTask = "pending"
       THEN /\ selExitCode' = code
            /\ IF SeleniumExitRejects(~selStderrOpen)
               THEN /\ selTask' = "rejected"
                    /\ selError' = "Tunnel failed to start"
                    /\ selDetail' = HandleChildExit(selErrorMessage, code)
                    /\ selDetector' = FALSE
               ELSE UNCHANGED <<selTask, selError, selDetail, selDetector>>
       ELSE UNCHANGED <<selExitCode, selTask, selError, selDetail, selDetector>>
    /\ UNCHANGED <<selStderrOpen, selKills, selReceived, selErrorMessage>>
    /\ UNCHANGED notSelenium

\* The server's stderr closes.  While the task is pending the _makeChild
\* listener rejects if an exit code is stored.
SeleniumStderrClose ==
    /\ selChild \in {"alive", "exited"}
    /\ selStderrOpen
    /\ selStderrOpen' = FALSE
    /\ IF selTask = "pending" /\ SeleniumCloseRejects(selExitCode)
       THEN /\ selTask' = "rejected"
            /\ selError' = "Tunnel failed to start"
            /\ selDetail' = HandleChildExit(selErrorMessage, selExitCode)
            /\ selDetector' = FALSE
       ELSE UNCHANGED <<selTask, selError, selDetail, selDetector>>
    /\ UNCHANGED <<selChild, selExitCode, selKills, selReceived, selErrorMessage,
                   selExitAt>>
    /\ UNCHANGED notSelenium

\* The server could not be spawned: the child emits 'error' and the
\* _makeChild listener rejects.  Such a child writes nothing.
SeleniumChildError ==
    /\ selTask = "pending"
    /\ selChild = "alive"
    /\ selReceived = <<>>
    /\ selKills = 0
    /\ selChild' = "failed"
    /\ selTask' = "rejected"
    /\ selError' = "spawn error"
    /\ selDetector' = FALSE
    /\ UNCHANGED <<selStderrOpen, selExitCode, selKills, selReceived, selErrorMessage,
                   selDetail, selExitAt>>
    /\ UNCHANGED notSelenium

\* The start task is cancelled: the canceler of _makeChild signals the
\* child.  A cancelled task runs neither handler of _start(), so the
\* detector stays attached.
SeleniumCancel ==
    /\ selTask = "pending"
    /\ selKills < MaxKills
    /\ selTask' = "canceled"
    /\ selKills' = selKills + 1
    /\ UNCHANGED <<selError, selChild, selStderrOpen, selExitCode, selDetector,
                   selReceived, selErrorMessage, selDetail, selExitAt>>
    /\ UNCHANGED notSelenium

SeleniumNext ==
    \/ SeleniumStart
    \/ \E chunk \in SeleniumChunks : SeleniumStderrData(chunk)
    \/ \E code \in ExitCodes : SeleniumChildExit(code)
    \/ SeleniumStderrClose
    \/ SeleniumChildError
    \/ SeleniumCancel

SeleniumSpec == Init /\ [][SeleniumNext]_vars

SeleniumTypeOK ==
    /\ selTask \in {"none", "pending", "fulfilled", "rejected", "canceled"}
    /\ selError \in {"", "Address is already in use", "Tunnel failed to start",
                     "spawn error"}
    /\ selChild \in {"none", "alive", "exited", "failed"}
    /\ selStderrOpen \in BOOLEAN
    /\ selExitCode \in ExitCodes
    /\ selDetector \in BOOLEAN
    /\ selKills \in 0..MaxKills
    /\ selReceived \in UNION {[1..n -> SeleniumChunks] : n \in 0..MaxChunks}
    /\ selErrorMessage \in UNION {[1..n -> SeleniumChunks] : n \in 0..MaxChunks}
    /\ selDetail.reason \in {"none", "Tunnel failed to start"}
    /\ selDetail.detail \in {"none", "stderr", "exit code"}
    /\ selDetail.code \in ExitCodes
    /\ selExitAt \in -1..MaxChunks

(***************************************************************************)
(* Start detection of the BrowserStack tunnel (src/unnamed/part_003,       *)
(* BrowserStackTunnel._start): an executor handed to _makeChild listens    *)
(* to the stdout of BrowserStackLocal.                                     *)
(***************************************************************************)

\* Number of lines one chunk of stdout data may carry.
MaxLines == 2

\* The success phrase of BrowserStackLocal.
SuccessLine == "You can now access your local server(s) in our remote browser"

\* Lines BrowserStackLocal writes to stdout.
BrowserStackLines ==
    {"*** Error: invalid key", "*** Error: no network", SuccessLine,
     "BrowserStackLocal v7.0"}

\* A chunk of stdout data: its lines, in order.
BrowserStackChunks == UNION {[1..n -> BrowserStackLines] : n \in 1..MaxLines}

\* The capture group of /\s*\*\*\* Error: (.*)$/m on one line: the rest of
\* the line after the marker, <<>> if the line does not match.
ErrorCapture(line) ==
    IF line = "*** Error: invalid key" THEN <<"invalid key">>
    ELSE IF line = "*** Error: no network" THEN <<"no network">>
    ELSE <<>>

\* /\s*\*\*\* Error: (.*)$/m.exec(data): the capture of the first line of
\* the chunk that matches, <<>> for no match.
ErrorMatch(chunk) ==
    LET hits == {i \in DOMAIN chunk : ErrorCapture(chunk[i]) # <<>>}
    IN IF hits = {} THEN <<>>
       ELSE ErrorCapture(chunk[CHOOSE i \in hits : \A j \in hits : i <= j])

\* data.indexOf('You can now access your local server(s) in our remote
\* browser') > -1
HasSuccessPhrase(chunk) == \E i \in DOMAIN chunk : chunk[i] = SuccessLine

\* The test of the trimmed chunk against /^BrowserStackLocal v/ (and the
\* two other status prefixes, which no line of the model carries).
IsStatusChunk(chunk) == chunk[1] = "BrowserStackLocal v7.0"

\* A listener that tests for the success phrase before the error marker.
BrowserStackDetector_successFirst(chunk) ==
    IF HasSuccessPhrase(chunk)
    THEN [settle |-> "resolve", error |-> <<>>, destroy |-> TRUE, status |-> <<>>]
    ELSE IF ErrorMatch(chunk) # <<>>
    THEN [settle |-> "reject", error |-> <<"The tunnel reported: ">> \o ErrorMatch(chunk),
          destroy |-> TRUE, status |-> <<>>]
    ELSE [settle |-> "none", error |-> <<>>, destroy |-> FALSE,
          status |-> IF IsStatusChunk(chunk) THEN <<chunk>> ELSE <<>>]

\* The stdout 'data' listener of _start(): what it does with one chunk.
\* The error test is made first, on the whole chunk.
BrowserStackDetector(chunk) ==
    IF ErrorMatch(chunk) # <<>>
    THEN [settle |-> "reject", error |-> <<"The tunnel reported: ">> \o ErrorMatch(chunk),
          destroy |-> TRUE, status |-> <<>>]
    ELSE IF HasSuccessPhrase(chunk)
    THEN [settle |-> "resolve", error |-> <<>>, destroy |-> TRUE, status |-> <<>>]
    ELSE [settle |-> "none", error |-> <<>>, destroy |-> FALSE,
          status |-> IF IsStatusChunk(chunk) THEN <<chunk>> ELSE <<>>]

\* _start(): _makeChild spawns BrowserStackLocal and runs the executor,
\* which attaches the listener.
BrowserStackStart ==
    /\ bsTask = "none"
    /\ bsTask' = "pending"
    /\ bsChild' = "alive"
    /\ bsStderrOpen' = TRUE
    /\ bsListener' = TRUE
    /\ UNCHANGED <<bsError, bsExitCode, bsReceived, bsEmitted>>
    /\ UNCHANGED notBrowserStack

\* The process writes a chunk to stdout.  The listener, if attached, runs
\* on it; resolve and reject act on a pending task only.
BrowserStackStdoutData(chunk) ==
    /\ bsChild \in {"alive", "exited"}
    /\ Len(bsReceived) < MaxChunks
    /\ bsReceived' = Append(bsReceived, chunk)
    /\ LET d == IF bsListener THEN BrowserStackDetector(chunk)
                ELSE [settle |-> "none", error |-> <<>>, destroy |-> FALSE,
                      status |-> <<>>]
           settles == bsTask = "pending" /\ d.settle # "none"
       IN
        /\ bsTask' = IF ~settles THEN bsTask
                     ELSE IF d.settle = "resolve" THEN "fulfilled" ELSE "rejected"
        /\ bsError' = IF settles /\ d.settle = "reject" THEN d.error ELSE bsError
        /\ bsListener' = IF d.destroy THEN FALSE ELSE bsListener
        /\ bsEmitted' = bsEmitted \o d.status
    /\ UNCHANGED <<bsChild, bsStderrOpen, bsExitCode>>
    /\ UNCHANGED notBrowserStack

\* The process emits 'exit'.  While the task is pending the _makeChild
\* listener stores the code and rejects if stderr has closed.  The stdout
\* listener is not part of the handle of _makeChild and stays attached.
BrowserStackChildExit(code) ==
    /\ bsChild = "alive"
    /\ bsChild' = "exited"
    /\ IF bsTask = "pending"
       THEN /\ bsExitCode' = code
            /\ IF ~bsStderrOpen
               THEN /\ bsTask' = "rejected"
                    /\ bsError' = <<"Tunnel failed to start: ">>
               ELSE UNCHANGED <<bsTask, bsError>>
       ELSE UNCHANGED <<bsExitCode, bsTask, bsError>>
    /\ UNCHANGED <<bsStderrOpen, bsListener, bsReceived, bsEmitted>>
    /\ UNCHANGED notBrowserStack

\* The process's stderr closes.  While the task is pending the _makeChild
\* listener rejects if an exit code is stored.
BrowserStackStderrClose ==
    /\ bsChild \in {"alive", "exited"}
    /\ bsStderrOpen
    /\ bsStderrOpen' = FALSE
    /\ IF bsTask = "pending" /\ bsExitCode # NullCode
       THEN /\ bsTask' = "rejected"
            /\ bsError' = <<"Tunnel failed to start: ">>
       ELSE UNCHANGED <<bsTask, bsError>>
    /\ UNCHANGED <<bsChild, bsExitCode, bsListener, bsReceived, bsEmitted>>
    /\ UNCHANGED notBrowserStack

\* The start task is cancelled while pending.
BrowserStackCancel ==
    /\ bsTask = "pending"
    /\ bsTask' = "canceled"
    /\ UNCHANGED <<bsError, bsChild, bsStderrOpen, bsExitCode, bsListener,
                   bsReceived, bsEmitted>>
    /\ UNCHANGED notBrowserStack

BrowserStackNext ==
    \/ BrowserStackStart
    \/ \E chunk \in BrowserStackChunks : BrowserStackStdoutData(chunk)
    \/ \E code \in ExitCodes : BrowserStackChildExit(code)
    \/ BrowserStackStderrClose
    \/ BrowserStackCancel

BrowserStackSpec == Init /\ [][BrowserStackNext]_vars

BrowserStackTypeOK ==
    /\ bsTask \in {"none", "pending", "fulfilled", "rejected", "canceled"}
    /\ bsError \in {<<>>, <<"Tunnel failed to start: ">>,
                    <<"The tunnel reported: ", "invalid key">>,
                    <<"The tunnel reported: ", "no network">>}
    /\ bsChild \in {"none", "alive", "exited"}
    /\ bsStderrOpen \in BOOLEAN
    /\ bsExitCode \in ExitCodes
    /\ bsListener \in BOOLEAN
    /\ bsReceived \in UNION {[1..n -> BrowserStackChunks] : n \in 0..MaxChunks}
    /\ bsEmitted \in UNION {[1..n -> BrowserStackChunks] : n \in 0..MaxChunks}

(***************************************************************************)
(* download() (src/src/Tunnel.ts, src/src/WebDriverTunnel.ts).  The base   *)
(* Tunnel has one artifact; the WebDriver tunnel has one per configured    *)
(* browser and decides for each of them separately.                        *)
(***************************************************************************)

\* Number of download() calls in one behaviour.
MaxDownloads == 2

\* WebDriverTunnel.isWebDriverDownloaded(config): config.noDownload, or the
\* executable exists.  (Tunnel.isDownloaded is the second test alone.)
IsWebDriverDownloaded(a) == a \in noDownload \/ a \in onDisk

\* A download() that requests whatever is present.
IssuesRequest_ignoresPresence(forceDownload, a) == TRUE

\* A download() that never requests what is present.
IssuesRequest_ignoresForce(forceDownload, a) == ~IsWebDriverDownloaded(a)

\* download(forceDownload) for one artifact: Task.resolve() if
\* !forceDownload && isWebDriverDownloaded(config), _downloadFile() if not.
IssuesRequest(forceDownload, a) == ~(~forceDownload /\ IsWebDriverDownloaded(a))

\* download(forceDownload): one decision for each artifact of the tunnel.
DownloadCall(forceDownload) ==
    /\ Len(downloads) < MaxDownloads
    /\ downloads' = Append(downloads,
          [force |-> forceDownload,
           reqs |-> [a \in configs |->
                        IF IssuesRequest(forceDownload, a) THEN "requested"
                        ELSE "resolved"]])
    /\ UNCHANGED <<configs, noDownload, onDisk>>
    /\ UNCHANGED notDownload

\* The request call i issued for artifact a succeeds: _postDownloadFile
\* writes the executable to disk.
FetchSucceeds(i, a) ==
    /\ i \in DOMAIN downloads
    /\ a \in configs
    /\ downloads[i].reqs[a] = "requested"
    /\ downloads' = [downloads EXCEPT ![i].reqs[a] = "done"]
    /\ onDisk' = onDisk \cup {a}
    /\ UNCHANGED <<configs, noDownload>>
    /\ UNCHANGED notDownload

\* The request call i issued for artifact a fails (a status of 400 or
\* more, or a network error): nothing is written.
FetchFails(i, a) ==
    /\ i \in DOMAIN downloads
    /\ a \in configs
    /\ downloads[i].reqs[a] = "requested"
    /\ downloads' = [downloads EXCEPT ![i].reqs[a] = "failed"]
    /\ UNCHANGED <<configs, noDownload, onDisk>>
    /\ UNCHANGED notDownload

DownloadNext ==
    \/ \E forceDownload \in BOOLEAN : DownloadCall(forceDownload)
    \/ \E i \in 1..MaxDownloads, a \in Artifacts : FetchSucceeds(i, a)
    \/ \E i \in 1..MaxDownloads, a \in Artifacts : FetchFails(i, a)

\* A tunnel with any configuration of its artifacts, nothing else started.
DownloadSpecInit ==
    /\ TunnelInit /\ SeleniumInit /\ BrowserStackInit /\ DownloadInit /\ ProxyIdle
    /\ DriverChildInit

DownloadSpec == DownloadSpecInit /\ [][DownloadNext]_vars

DownloadTypeOK ==
    /\ configs \in (SUBSET Artifacts) \ {{}}
    /\ noDownload \subseteq configs
    /\ onDisk \subseteq configs
    /\ Len(downloads) <= MaxDownloads
    /\ \A i \in DOMAIN downloads :
          /\ downloads[i].force \in BOOLEAN
          /\ downloads[i].reqs \in [configs -> {"resolved", "requested", "done", "failed"}]

(***************************************************************************)
(* Driver creation and request routing of the WebDriver proxy              *)
(***************************************************************************)

\* The body of the 500 response createSession gives when the factory
\* rejects.
FailedToStart ==
    WebDriverErrorFactory("", "Failed to start WebDriver executable: %s")

\* A factory that refuses a browser for which it has a live process.
CreateWebDriverChild_onePerKind(browserName) ==
    IF \/ browserName \notin ConfiguredBrowsers
       \/ \E q \in Requests :
             webDrivers[q].name = browserName /\ webDrivers[q].process = "alive"
    THEN [rejects |-> TRUE, port |-> 0, lastUsedPort |-> lastUsedPort]
    ELSE [rejects |-> FALSE, port |-> lastUsedPort + 1, lastUsedPort |-> lastUsedPort + 1]

\* A factory that hands out the next port without storing it.
CreateWebDriverChild_reusesPort(browserName) ==
    IF browserName \notin ConfiguredBrowsers
    THEN [rejects |-> TRUE, port |-> 0, lastUsedPort |-> lastUsedPort]
    ELSE [rejects |-> FALSE, port |-> lastUsedPort + 1, lastUsedPort |-> lastUsedPort]

\* createWebDriverChild(browserName), the synchronous part: rejected for a
\* name without a configuration, otherwise port = ++this.lastUsedPort and a
\* new child spawned with it.  No earlier child is looked up.
CreateWebDriverChild(browserName) ==
    IF browserName \notin ConfiguredBrowsers
    THEN [rejects |-> TRUE, port |-> 0, lastUsedPort |-> lastUsedPort]
    ELSE [rejects |-> FALSE, port |-> lastUsedPort + 1, lastUsedPort |-> lastUsedPort + 1]

\* sessionId in this.webDriverMap
InWebDriverMap(sessionId) == sessionId \in SessionIds /\ webDriverMap[sessionId] # 0

\* The drivers of the entries of the map.
MappedDrivers == {webDriverMap[id] : id \in {s \in SessionIds : webDriverMap[s] # 0}}

\* Object.keys(webDriverMap).  The keys are listed in the order of
\* SessionOrder; the order in which they were added is not kept.
ObjectKeys == SelectSeq(SessionOrder, LAMBDA id : webDriverMap[id] # 0)

\* A list with the session info of every entry, cached or not.
RECURSIVE GetSessions_noTest(_)
GetSessions_noTest(keys) ==
    IF keys = <<>> THEN <<>>
    ELSE <<webDrivers[webDriverMap[Head(keys)]].sessionInfo>>
            \o GetSessions_noTest(Tail(keys))

\* The loop of getSessions() over the keys: the session info of each
\* entry's driver is pushed if there is one.
RECURSIVE GetSessionsOf(_)
GetSessionsOf(keys) ==
    IF keys = <<>> THEN <<>>
    ELSE LET sessionInfo == webDrivers[webDriverMap[Head(keys)]].sessionInfo
         IN (IF Truthy(sessionInfo) THEN <<sessionInfo>> ELSE <<>>)
               \o GetSessionsOf(Tail(keys))

\* getSessions()
GetSessions == GetSessionsOf(ObjectKeys)

\* getSessionIdFromPath(req): the part after the first part 'session', ""
\* for undefined.  A path is the sequence of its parts.
GetSessionIdFromPath(path) ==
    LET hits == {i \in 1..(Len(path) - 1) : path[i] = "session"}
    IN IF hits = {} THEN ""
       ELSE path[(CHOOSE i \in hits : \A j \in hits : i <= j) + 1]

\* path.replace(this.config.path, ''): the first occurrence of the proxy
\* path is taken out.
StripProxyPath(path) ==
    LET n == Len(ProxyPath)
        hits == {i \in 0..(Len(path) - n) : SubSeq(path, i + 1, i + n) = ProxyPath}
    IN IF hits = {} THEN path
       ELSE LET i == CHOOSE i \in hits : \A j \in hits : i <= j
            IN SubSeq(path, 1, i) \o SubSeq(path, i + n + 1, Len(path))

\* A target built from the port allotted last, whichever driver is asked.
BuildTargetUrl_lastPort(path, webDriver) ==
    [port |-> lastUsedPort, path |-> StripProxyPath(path)]

\* buildTargetUrl(path, webDriver): http://localhost:{webDriver.port}
\* resolved with the stripped path.
BuildTargetUrl(path, webDriver) ==
    [port |-> webDrivers[webDriver].port, path |-> StripProxyPath(path)]

\* A DELETE handler that leaves the session info in place.
DeleteSessionInfo_keeps(sessionInfo) == sessionInfo

\* delete this.webDriverMap[sessionId].sessionInfo
DeleteSessionInfo(sessionInfo) == Undefined

\* proxyRequest(req, res) with the answer of the driver.  Without a session
\* id in the path nothing is done; for a session id that is not in the map
\* buildTargetUrl throws on webDriver.port and express answers 500; else
\* the request goes to the driver and its response is passed on, or a 500
\* is given when the driver cannot be reached.
ProxyRequest(kind, path, connects) ==
    LET sessionId == GetSessionIdFromPath(path) IN
    IF sessionId = ""
    THEN [kind |-> kind, sessionId |-> "", port |-> 0, path |-> <<>>, status |-> 0,
          sessions |-> <<>>]
    ELSE IF ~InWebDriverMap(sessionId)
    THEN [kind |-> kind, sessionId |-> sessionId, port |-> 0, path |-> <<>>,
          status |-> 500, sessions |-> <<>>]
    ELSE LET target == BuildTargetUrl(path, webDriverMap[sessionId])
         IN [kind |-> kind, sessionId |-> sessionId, port |-> target.port,
             path |-> target.path, status |-> IF connects THEN 200 ELSE 500,
             sessions |-> <<>>]

\* stopWebDriver(webDriver): the handle is destroyed and stopChildProcess
\* sends the process a signal.  kill() throws for a process that has gone,
\* or when killThrows says so; stopChildProcess catches the exception.
StopWebDriver(webDriver, killThrows) ==
    [webDriver EXCEPT
        !.stops = @ + 1,
        !.process = IF @ = "alive" /\ ~killThrows THEN "killed" ELSE @]

\* A loop that an exception of kill() ends.
StopAll_failFast(failing) ==
    [stopped |-> IF failing = {} THEN MappedDrivers ELSE failing,
     throws |-> failing # {}]

\* The loop of stop() over the map: stopWebDriver for every driver.
\* stopChildProcess catches what kill() throws and calls reject, which
\* stopWebDriver does not pass.
StopAll(failing) ==
    [stopped |-> MappedDrivers, throws |-> FALSE]

(***************************************************************************)
(* The handlers of the WebDriver proxy                                     *)
(***************************************************************************)

\* start(): the express server starts to listen.
ProxyStart ==
    /\ httpServer = "none"
    /\ stopPromise = "none"
    /\ httpServer' = "listening"
    /\ UNCHANGED <<maxConnectAttempts, webDriverMap, requests, webDrivers,
                   lastUsedPort, stopPromise, exchange>>
    /\ UNCHANGED notProxy

\* createSession(req, res): POST {path}session.  With a browserName the
\* child factory is called, whose promise executor runs at once: it rejects
\* for a name without a configuration (the rejection handler answers 500 in
\* the same turn), and otherwise allots a port and spawns the driver.
\* Without a browserName nothing is done.
CreateSession(r, browserName) ==
    /\ httpServer = "listening"
    /\ requests[r].phase = "none"
    /\ \A q \in Requests : q < r => requests[q].phase # "none"
    /\ LET c == CreateWebDriverChild(browserName) IN
        IF browserName = ""
        THEN /\ requests' = [requests EXCEPT ![r].phase = "dropped"]
             /\ UNCHANGED <<webDrivers, lastUsedPort>>
        ELSE IF c.rejects
        THEN /\ requests' = [requests EXCEPT
                   ![r].phase = "responded",
                   ![r].factoryCalls = @ + 1,
                   ![r].response = [status |-> 500, body |-> FailedToStart]]
             /\ UNCHANGED <<webDrivers, lastUsedPort>>
        ELSE /\ requests' = [requests EXCEPT
                   ![r].phase = "factory",
                   ![r].factoryCalls = @ + 1]
             /\ webDrivers' = [webDrivers EXCEPT
                   ![r].name = browserName,
                   ![r].port = c.port,
                   ![r].process = "alive"]
             /\ lastUsedPort' = c.lastUsedPort
    /\ UNCHANGED <<maxConnectAttempts, webDriverMap, httpServer, stopPromise, exchange>>
    /\ UNCHANGED notProxy

\* requestNewSession(webDriver, req, res, previousError) for request r and
\* its driver, whose counter stands at failedInitAttempts: with an error
\* that reaches the limit the driver is stopped and the error is the body of
\* a 500 response; otherwise a session-creation request is sent upstream.
RequestNewSession(r, failedInitAttempts, previousError) ==
    LET check == IF previousError = Undefined
                 THEN [failedInitAttempts |-> failedInitAttempts, limit |-> FALSE]
                 ELSE CheckNewSessionError(failedInitAttempts)
    IN IF check.limit
       THEN /\ webDrivers' = [webDrivers EXCEPT
                  ![r] = StopWebDriver(
                            [@ EXCEPT !.spawned = TRUE,
                                      !.failedInitAttempts = check.failedInitAttempts],
                            FALSE)]
            /\ requests' = [requests EXCEPT
                  ![r].phase = "responded",
                  ![r].response = [status |-> 500, body |-> previousError]]
       ELSE /\ webDrivers' = [webDrivers EXCEPT
                  ![r].spawned = TRUE,
                  ![r].failedInitAttempts = check.failedInitAttempts]
            /\ requests' = [requests EXCEPT
                  ![r].phase = "upstream",
                  ![r].upstream = @ + 1]

\* The promise of the child factory resolves with the WebDriver object
\* built for request r (failedInitAttempts: 0):
\* requestNewSession(webDriver, req, res).
FactoryResolves(r) ==
    /\ requests[r].phase = "factory"
    /\ RequestNewSession(r, 0, Undefined)
    /\ UNCHANGED <<maxConnectAttempts, webDriverMap, lastUsedPort, httpServer,
                   stopPromise, exchange>>
    /\ UNCHANGED notProxy

\* The promise of the child factory rejects, the driver having failed to
\* start: a 500 response.
FactoryRejects(r) ==
    /\ requests[r].phase = "factory"
    /\ requests' = [requests EXCEPT
          ![r].phase = "responded",
          ![r].response = [status |-> 500, body |-> FailedToStart]]
    /\ webDrivers' = [webDrivers EXCEPT ![r].process = "exited"]
    /\ UNCHANGED <<maxConnectAttempts, webDriverMap, lastUsedPort, httpServer,
                   stopPromise, exchange>>
    /\ UNCHANGED notProxy

\* The upstream request of r fails to connect: requestNewSession is called
\* again with a 'session not created' error.
UpstreamError(r) ==
    /\ requests[r].phase = "upstream"
    /\ RequestNewSession(r, webDrivers[r].failedInitAttempts,
          WebDriverErrorFactory("session not created", "WebDriver connection error: %s"))
    /\ UNCHANGED <<maxConnectAttempts, webDriverMap, lastUsedPort, httpServer,
                   stopPromise, exchange>>
    /\ UNCHANGED notProxy

\* The upstream request of r is answered with a body that parses to data.
\* handleNewSessionResponse registers the session, or returns an error with
\* which requestNewSession is called again, or throws: the exception is
\* raised in a promise callback with no rejection handler and request r is
\* left without a response.
UpstreamReplies(r, data) ==
    /\ requests[r].phase = "upstream"
    /\ LET h == HandleNewSessionResponse(data) IN
        IF h.throws
        THEN /\ requests' = [requests EXCEPT ![r].phase = "abandoned"]
             /\ UNCHANGED <<webDriverMap, webDrivers>>
        ELSE IF h.errorResponse # Undefined
        THEN /\ RequestNewSession(r, webDrivers[r].failedInitAttempts, h.errorResponse)
             /\ UNCHANGED webDriverMap
        ELSE /\ webDrivers' = [webDrivers EXCEPT ![r].sessionInfo = data]
             /\ webDriverMap' = [webDriverMap EXCEPT ![h.sessionId.str] = r]
             /\ requests' = [requests EXCEPT
                   ![r].phase = "responded",
                   ![r].response = [status |-> 200, body |-> data]]
    /\ UNCHANGED <<maxConnectAttempts, lastUsedPort, httpServer, stopPromise, exchange>>
    /\ UNCHANGED notProxy

\* The upstream request of r is answered with a body that is not JSON:
\* wdRes.json() rejects and nothing handles the rejection.
UpstreamUnparseable(r) ==
    /\ requests[r].phase = "upstream"
    /\ requests' = [requests EXCEPT ![r].phase = "abandoned"]
    /\ UNCHANGED <<maxConnectAttempts, webDriverMap, webDrivers, lastUsedPort,
                   httpServer, stopPromise, exchange>>
    /\ UNCHANGED notProxy

\* A driver process exits, of itself or after a signal.  The proxy listens
\* to no event of a driver the factory has handed over.
DriverExit(r) ==
    /\ webDrivers[r].process \in {"alive", "killed"}
    /\ requests[r].phase # "factory"
    /\ webDrivers' = [webDrivers EXCEPT ![r].process = "exited"]
    /\ UNCHANGED <<maxConnectAttempts, webDriverMap, requests, lastUsedPort,
                   httpServer, stopPromise, exchange>>
    /\ UNCHANGED notProxy

\* GET {path}sessions: answered from the map, no driver is contacted.
GetSessionsRequest ==
    /\ httpServer = "listening"
    /\ exchange' = [kind |-> "sessions", sessionId |-> "", port |-> 0, path |-> <<>>,
                    status |-> 200, sessions |-> GetSessions]
    /\ UNCHANGED <<maxConnectAttempts, webDriverMap, requests, webDrivers,
                   lastUsedPort, httpServer, stopPromise>>
    /\ UNCHANGED notProxy

\* A GET, PUT or POST of another path, answered by proxyRequest; connects
\* tells whether the request to the driver gets a response.
ForwardRequest(path, connects) ==
    /\ httpServer = "listening"
    /\ exchange' = ProxyRequest("forward", path, connects)
    /\ UNCHANGED <<maxConnectAttempts, webDriverMap, requests, webDrivers,
                   lastUsedPort, httpServer, stopPromise>>
    /\ UNCHANGED notProxy

\* A DELETE of a path: the session info of the driver the session id is
\* mapped to is deleted, the entry of the map is kept, and the request is
\* passed on by proxyRequest.
DeleteRequest(path, connects) ==
    /\ httpServer = "listening"
    /\ LET sessionId == GetSessionIdFromPath(path) IN
        webDrivers' = IF sessionId # "" /\ InWebDriverMap(sessionId)
                      THEN [webDrivers EXCEPT ![webDriverMap[sessionId]].sessionInfo =
                                DeleteSessionInfo(@)]
                      ELSE webDrivers
    /\ exchange' = ProxyRequest("delete", path, connects)
    /\ UNCHANGED <<maxConnectAttempts, webDriverMap, requests, lastUsedPort,
                   httpServer, stopPromise>>
    /\ UNCHANGED notProxy

\* stop(): stopWebDriver for the driver of every entry of the map, the map
\* replaced by an empty one, and a promise that resolves when the listener
\* has closed, or at once if the proxy was never started.  failing are the
\* drivers for which kill() throws.
ProxyStop(failing) ==
    /\ stopPromise = "none"
    /\ failing \subseteq MappedDrivers
    /\ LET s == StopAll(failing) IN
        /\ webDrivers' = [r \in Requests |->
              IF r \in s.stopped THEN StopWebDriver(webDrivers[r], r \in failing)
              ELSE webDrivers[r]]
        /\ IF s.throws
           THEN UNCHANGED <<webDriverMap, httpServer, stopPromise>>
           ELSE /\ webDriverMap' = [id \in SessionIds |-> 0]
                /\ httpServer' = IF httpServer = "listening" THEN "closing" ELSE httpServer
                /\ stopPromise' = IF httpServer = "listening" THEN "pending" ELSE "resolved"
    /\ UNCHANGED <<maxConnectAttempts, requests, lastUsedPort, exchange>>
    /\ UNCHANGED notProxy

\* The callback of httpServer.close() runs: the promise of stop() resolves.
ListenerClosed ==
    /\ httpServer = "closing"
    /\ httpServer' = "closed"
    /\ stopPromise' = "resolved"
    /\ UNCHANGED <<maxConnectAttempts, webDriverMap, requests, webDrivers,
                   lastUsedPort, exchange>>
    /\ UNCHANGED notProxy

\* Session creation alone, for requests that name chrome or no browser.
ProxyNext ==
    \/ ProxyStart
    \/ \E r \in Requests, browserName \in {"chrome", ""} : CreateSession(r, browserName)
    \/ \E r \in Requests : FactoryResolves(r)
    \/ \E r \in Requests : FactoryRejects(r)
    \/ \E r \in Requests : UpstreamError(r)
    \/ \E r \in Requests, data \in Payloads : UpstreamReplies(r, data)
    \/ \E r \in Requests : UpstreamUnparseable(r)

\* A proxy constructed with any limit of connect attempts, nothing else
\* started.
ProxySpecInit ==
    /\ TunnelInit /\ SeleniumInit /\ BrowserStackInit /\ DownloadIdle /\ ProxyInit
    /\ DriverChildInit

ProxySpec == ProxySpecInit /\ [][ProxyNext]_vars

\* The factory settles every call and a driver settles every upstream
\* request, with a reply or with a connection error.
ProxyFairSpec ==
    /\ ProxySpec
    /\ \A r \in Requests :
          /\ WF_vars(FactoryResolves(r) \/ FactoryRejects(r))
          /\ WF_vars(\/ UpstreamError(r)
                     \/ \E data \in Payloads : UpstreamReplies(r, data)
                     \/ UpstreamUnparseable(r))

\* Replies of a driver to a new-session request in the behaviours that
\* follow the sessions after their creation: a JSON Wire reply for s1, a
\* W3C reply for s2, and an error.
RoutePayloads ==
    {JObj([sessionId |-> JStr("s1"), status |-> JNum(0),
           value |-> JObj([browserName |-> JStr("chrome")])]),
     JObj([value |-> JObj([sessionId |-> JStr("s2"),
                           capabilities |-> JObj([browserName |-> JStr("chrome")])])]),
     JObj([value |-> JObj([error |-> JStr("session not created"),
                           message |-> JStr("cannot find the browser binary")])])}

\* Session creation with the requests for existing sessions and stop().
\* The proxy handles no event of a driver it has been handed, so the exit
\* of drivers is left to DriversNext.
RoutesNext ==
    \/ ProxyStart
    \/ \E r \in Requests, browserName \in {"chrome", ""} : CreateSession(r, browserName)
    \/ \E r \in Requests : FactoryResolves(r)
    \/ \E r \in Requests : FactoryRejects(r)
    \/ \E r \in Requests : UpstreamError(r)
    \/ \E r \in Requests, data \in RoutePayloads : UpstreamReplies(r, data)
    \/ GetSessionsRequest
    \/ \E path \in RequestPaths, connects \in BOOLEAN : ForwardRequest(path, connects)
    \/ \E path \in RequestPaths, connects \in BOOLEAN : DeleteRequest(path, connects)
    \/ \E failing \in SUBSET Requests : ProxyStop(failing)
    \/ ListenerClosed

\* A proxy that gives up a driver at its first failure.
RoutesSpecInit ==
    /\ TunnelInit /\ SeleniumInit /\ BrowserStackInit /\ DownloadIdle
    /\ DriverChildInit
    /\ maxConnectAttempts = 1
    /\ ProxyConstructed

RoutesSpec == RoutesSpecInit /\ [][RoutesNext]_vars

\* Session creation for any browser name, with the driver processes and
\* stop().
DriversNext ==
    \/ ProxyStart
    \/ \E r \in Requests, browserName \in BrowserNameInputs : CreateSession(r, browserName)
    \/ \E r \in Requests : FactoryResolves(r)
    \/ \E r \in Requests : FactoryRejects(r)
    \/ \E r \in Requests : UpstreamError(r)
    \/ \E r \in Requests, data \in RoutePayloads : UpstreamReplies(r, data)
    \/ \E r \in Requests : DriverExit(r)
    \/ \E failing \in SUBSET Requests : ProxyStop(failing)
    \/ ListenerClosed

DriversSpec == RoutesSpecInit /\ [][DriversNext]_vars

ProxyTypeOK ==
    /\ maxConnectAttempts \in 1..DefaultMaxConnectAttempts
    /\ webDriverMap \in [SessionIds -> 0..MaxRequests]
    /\ lastUsedPort \in BasePort..(BasePort + MaxRequests)
    /\ httpServer \in {"none", "listening", "closing", "closed"}
    /\ stopPromise \in {"none", "pending", "resolved"}
    /\ exchange.kind \in {"none", "sessions", "forward", "delete"}
    /\ exchange.status \in {0, 200, 500}
    /\ \A r \in Requests :
          /\ requests[r].phase \in {"none", "dropped", "factory", "upstream",
                                    "responded", "abandoned"}
          /\ requests[r].upstream \in 0..DefaultMaxConnectAttempts
          /\ requests[r].factoryCalls \in 0..1
          /\ requests[r].response.status \in {0, 200, 500}
          /\ webDrivers[r].spawned \in BOOLEAN
          /\ webDrivers[r].failedInitAttempts \in 0..DefaultMaxConnectAttempts
          /\ webDrivers[r].stops \in 0..2
          /\ webDrivers[r].name \in ConfiguredBrowsers \cup {""}
          /\ webDrivers[r].port \in {0} \cup ((BasePort + 1)..(BasePort + MaxRequests))
          /\ webDrivers[r].process \in {"none", "alive", "killed", "exited"}

(***************************************************************************)
(* One call of createWebDriverChild (src/src/WebDriverTunnel.ts) with the  *)
(* task makeChildWithCommand (src/src/lib/tunnelChildProcesses.ts) builds  *)
(* for the driver process.  The listeners of both are destroyed when the   *)
(* task settles, so an event changes the task while it is pending only.    *)
(***************************************************************************)

\* Chunks a driver writes to stdout or stderr.
DriverChunks == {"Starting ChromeDriver", "Only local connections are allowed."}

\* The exit code the closure of makeChildWithCommand holds: it is declared
\* and never assigned.
UndefinedCode == -2

\* reject(format('Could not find a configuration for %s.', browserName))
NoConfigurationError ==
    [reason |-> "Could not find a configuration", detail |-> "none", text |-> <<>>,
     code |-> NullCode]

\* The error a child emits with 'error' when the OS cannot create the
\* process.
SpawnError == [reason |-> "spawn ENOENT", detail |-> "none", text |-> <<>>, code |-> NullCode]

\* A task without an 'error' listener on the child.
OnChildError_ignored(state, error) == [state |-> state, error |-> NoError]

\* on(child, 'error', reject): what an 'error' event makes of a task in the
\* given state.
OnChildError(state, error) ==
    IF state = "pending"
    THEN [state |-> "rejected", error |-> error]
    ELSE [state |-> state, error |-> NoError]

\* The then and catch callbacks createWebDriverChild chains on the task:
\* the promise it returned follows the task.
SettleDriverChild(state, error) ==
    /\ dcTask' = state
    /\ dcError' = error
    /\ dcWebDriver' = [state |-> IF state = "fulfilled" THEN "resolved" ELSE state,
                       error |-> error]

\* createWebDriverChild(browserName): without a configuration the promise
\* is rejected and nothing is spawned; otherwise makeChildWithCommand
\* spawns the driver and runs the child executor, which sets the timer.
DriverChildCreate(browserName) ==
    /\ dcWebDriver.state = "none"
    /\ IF browserName \notin ConfiguredBrowsers
       THEN /\ dcWebDriver' = [state |-> "rejected", error |-> NoConfigurationError]
            /\ UNCHANGED <<dcTask, dcError, dcChild, dcTimer>>
       ELSE /\ dcWebDriver' = [state |-> "pending", error |-> NoError]
            /\ dcTask' = "pending"
            /\ dcChild' = "alive"
            /\ dcTimer' = "armed"
            /\ UNCHANGED dcError
    /\ UNCHANGED <<dcExitted, dcStderrClosed, dcErrorMessage, dcWritten>>
    /\ UNCHANGED <<dcFin, dcKills, dcCancel>>
    /\ UNCHANGED notDriverChild

\* The driver writes a chunk.  While the task is pending the listener of
\* makeChildWithCommand appends stderr data to errorMessage, and the
\* listener of the child executor resolves.
DriverChildData(stream, data) ==
    /\ dcChild \in {"alive", "exited"}
    /\ stream = "stderr" => ~dcStderrClosed
    /\ dcWritten < MaxChunks
    /\ dcWritten' = dcWritten + 1
    /\ IF dcTask = "pending"
       THEN /\ dcErrorMessage' = IF stream = "stderr"
                                 THEN Append(dcErrorMessage, data)
                                 ELSE dcErrorMessage
            /\ SettleDriverChild("fulfilled", NoError)
       ELSE UNCHANGED <<dcErrorMessage, dcTask, dcError, dcWebDriver>>
    /\ UNCHANGED <<dcChild, dcExitted, dcStderrClosed, dcTimer>>
    /\ UNCHANGED <<dcFin, dcKills, dcCancel>>
    /\ UNCHANGED notDriverChild

\* The process could not be created: the child emits 'error'.  Such a
\* child writes nothing.
DriverChildErrorEvent ==
    /\ dcChild = "alive"
    /\ dcWritten = 0
    /\ dcChild' = "failed"
    /\ LET outcome == OnChildError(dcTask, SpawnError) IN
        IF outcome.state # dcTask
        THEN SettleDriverChild(outcome.state, outcome.error)
        ELSE UNCHANGED <<dcTask, dcError, dcWebDriver>>
    /\ UNCHANGED <<dcExitted, dcStderrClosed, dcErrorMessage, dcTimer, dcWritten>>
    /\ UNCHANGED <<dcFin, dcKills, dcCancel>>
    /\ UNCHANGED notDriverChild

\* The driver process emits 'exit'.  While the task is pending the listener
\* rejects if stderr has closed; the promise the finally step of a cancelled
\* task waits on resolves.
DriverChildExit ==
    /\ dcChild = "alive"
    /\ dcChild' = "exited"
    /\ dcExitted' = TRUE
    /\ IF dcTask = "pending" /\ dcStderrClosed
       THEN SettleDriverChild("rejected", HandleChildExit(dcErrorMessage, UndefinedCode))
       ELSE UNCHANGED <<dcTask, dcError, dcWebDriver>>
    /\ dcFin' = IF dcFin = "waiting" THEN "done" ELSE dcFin
    /\ UNCHANGED <<dcStderrClosed, dcErrorMessage, dcTimer, dcWritten, dcKills, dcCancel>>
    /\ UNCHANGED notDriverChild

\* The stderr of the driver closes.  While the task is pending the listener
\* rejects if the process has exited.
DriverStderrClose ==
    /\ dcChild \in {"alive", "exited", "failed"}
    /\ ~dcStderrClosed
    /\ dcStderrClosed' = TRUE
    /\ IF dcTask = "pending" /\ dcExitted
       THEN SettleDriverChild("rejected", HandleChildExit(dcErrorMessage, UndefinedCode))
       ELSE UNCHANGED <<dcTask, dcError, dcWebDriver>>
    /\ UNCHANGED <<dcChild, dcExitted, dcErrorMessage, dcTimer, dcWritten>>
    /\ UNCHANGED <<dcFin, dcKills, dcCancel>>
    /\ UNCHANGED notDriverChild

\* A timer whose resolve fulfils the task whatever its state.
TimerResolves_overrides(state) == "fulfilled"

\* resolve, as the timer calls it: it fulfils a pending task and does
\* nothing to a settled one.
TimerResolves(state) == IF state = "pending" THEN "fulfilled" ELSE state

\* setTimeout(resolve, startupWait): the timer is never cleared.
DriverTimerFires ==
    /\ dcTimer = "armed"
    /\ dcTimer' = "fired"
    /\ IF TimerResolves(dcTask) # dcTask
       THEN SettleDriverChild(TimerResolves(dcTask), NoError)
       ELSE UNCHANGED <<dcTask, dcError, dcWebDriver>>
    /\ UNCHANGED <<dcChild, dcExitted, dcStderrClosed, dcErrorMessage, dcWritten>>
    /\ UNCHANGED <<dcFin, dcKills, dcCancel>>
    /\ UNCHANGED notDriverChild

\* A canceler without the try block: the exception of kill leaves it.
Canceler_throws(killThrows) ==
    [canceled |-> ~killThrows, signalled |-> ~killThrows, throws |-> killThrows]

\* The canceler of the makeChildWithCommand task: canceled = true, then
\* try { kill(child.pid) } catch (error) {}.
Canceler(killThrows) ==
    [canceled |-> TRUE, signalled |-> ~killThrows, throws |-> FALSE]

\* cancel() on the pending task, killThrows telling whether kill throws
\* (the process is gone).  A canceler that returns lets the task become
\* cancelled and its finally step run, which destroys the listeners and
\* waits for the 'exit' of the child.
DriverChildCancel(killThrows) ==
    /\ dcTask = "pending"
    /\ dcKills < MaxKills
    /\ LET c == Canceler(killThrows) IN
        /\ dcCancel' = IF c.throws THEN "threw" ELSE "returned"
        /\ dcKills' = IF c.signalled THEN dcKills + 1 ELSE dcKills
        /\ dcTask' = IF c.throws THEN dcTask ELSE "canceled"
        /\ dcFin' = IF c.throws THEN dcFin ELSE FinallyStep(c.canceled)
    /\ UNCHANGED <<dcWebDriver, dcError, dcChild, dcExitted, dcStderrClosed,
                   dcErrorMessage, dcTimer, dcWritten>>
    /\ UNCHANGED notDriverChild

DriverChildNext ==
    \/ \E browserName \in BrowserNameInputs : DriverChildCreate(browserName)
    \/ \E stream \in {"stdout", "stderr"}, data \in DriverChunks :
          DriverChildData(stream, data)
    \/ DriverChildErrorEvent
    \/ DriverChildExit
    \/ DriverStderrClose
    \/ DriverTimerFires
    \/ \E killThrows \in BOOLEAN : DriverChildCancel(killThrows)

DriverChildSpec == Init /\ [][DriverChildNext]_vars

\* The event loop runs a timer that is due: a timer that is set fires.
DriverChildFairSpec == DriverChildSpec /\ WF_vars(DriverTimerFires)

DriverChildTypeOK ==
    /\ dcWebDriver.state \in {"none", "pending", "resolved", "rejected"}
    /\ dcTask \in {"none", "pending", "fulfilled", "rejected", "canceled"}
    /\ dcFin \in {"none", "waiting", "done"}
    /\ dcKills \in 0..MaxKills
    /\ dcCancel \in {"none", "returned", "threw"}
    /\ dcError.reason \in {"none", "spawn ENOENT", "Tunnel failed to start"}
    /\ dcWebDriver.error.reason \in
          {"none", "spawn ENOENT", "Tunnel failed to start", "Could not find a configuration"}
    /\ dcChild \in {"none", "alive", "exited", "failed"}
    /\ dcExitted \in BOOLEAN
    /\ dcStderrClosed \in BOOLEAN
    /\ dcErrorMessage \in UNION {[1..n -> DriverChunks] : n \in 0..MaxChunks}
    /\ dcTimer \in {"none", "armed", "fired"}
    /\ dcWritten \in 0..MaxChunks

(***************************************************************************)
(* Properties                                                              *)
(***************************************************************************)

\* Any call of start(), whatever it does.
StartCall == StartThrows \/ StartExisting \/ StartNew

\* Any call of stop(), whatever it does.
StopCall == StopThrows \/ StopCancels \/ StopRunning

Idle == ~isStarting /\ ~isRunning /\ ~isStopping

\* Number of "Ready" status events emitted for attempt a.
ReadyCount(a) == Cardinality({i \in DOMAIN emitted[a] : emitted[a][i] = "Ready"})

\* C1: a start() call made while isStarting is set returns the task of the
\* attempt in flight (the one the latest attempt-beginning call returned),
\* begins no attempt and spawns no child.
C1_StartWhileStartingReturnsSameTask ==
    [][ (StartCall /\ isStarting) =>
            /\ nAttempts >= 1
            /\ lastCall' = [op |-> "start", res |-> "task", task |-> nAttempts]
            /\ startTask = nAttempts
            /\ UNCHANGED <<tunnelVars, attemptVars, stopVars, downloaded>> ]_vars

\* C1 witness: start() was called again after the child of the attempt in
\* flight had been spawned, and got that attempt's task.
C1_Witness ==
    /\ isStarting
    /\ lastCall = [op |-> "start", res |-> "task", task |-> startTask]
    /\ startTask # 0
    /\ child[startTask] = "alive"
    /\ Cardinality({a \in Attempts : child[a] # "none"}) = 1

\* C2: a cancelled start task whose child was spawned has had kill() called
\* on the child, and its finally step is settled only when the child's
\* 'exit' event has been observed; it settles on that event and no earlier.
C2_CancelKillsAndWaitsForExit ==
    /\ [](\A a \in Attempts :
            (task[a] = "canceled" /\ child[a] # "none") =>
                /\ kills[a] >= 1
                /\ fin[a] \in {"waiting", "done"}
                /\ fin[a] = "done" => child[a] = "exited")
    /\ [][ \A a \in Attempts :
            (task[a] = "canceled" /\ fin[a] # "done" /\ fin'[a] = "done") =>
                (child[a] = "alive" /\ child'[a] = "exited") ]_vars

\* C2 witness: a cancellation has completed after the kill and the exit.
C2_Witness ==
    \E a \in Attempts :
        /\ task[a] = "canceled"
        /\ kills[a] >= 1
        /\ fin[a] = "done"
        /\ child[a] = "exited"

C4_StartThrowsWhenRunningOrStopping ==
    [][ (StartCall /\ (isRunning \/ isStopping)) =>
            /\ lastCall' = [op |-> "start",
                            res |-> IF isRunning THEN "Tunnel is already running"
                                    ELSE "Previous tunnel is still terminating",
                            task |-> 0]
            /\ UNCHANGED <<tunnelVars, attemptVars, stopVars, downloaded>> ]_vars

\* C4 witness: start() threw on a tunnel that is stopping.
C4_Witness ==
    /\ isStopping
    /\ ~isRunning
    /\ lastCall = [op |-> "start", res |-> "Previous tunnel is still terminating",
                   task |-> 0]

C6_AtMostOneLifecycleFlag ==
    Cardinality({f \in {"starting", "running", "stopping"} :
                    \/ f = "starting" /\ isStarting
                    \/ f = "running" /\ isRunning
                    \/ f = "stopping" /\ isStopping}) <= 1

\* C6 with the overlap of two attempts ruled out: the flags are exclusive as
\* long as no second attempt has begun while an earlier one was unsettled.
C6_SingleAttemptExclusive ==
    Cardinality({a \in Attempts : task[a] # "none"}) <= 1 => C6_AtMostOneLifecycleFlag

\* C7: stop() on a Running tunnel clears isRunning and sets isStopping and,
\* unless its stop sequence fails, kills the tunnel's child and waits for
\* its exit; when that 'exit' event arrives the tunnel drops its process
\* reference and its listeners, all three flags are false and the stop
\* promise resolves with the code the event carried.
C7_StopRunningKillsAndResolves ==
    /\ [][ (StopCall /\ isRunning /\ ~isStopping /\ ~isStarting) =>
            /\ ~isRunning' /\ isStopping' /\ ~isStarting'
            /\ lastCall'.res = "promise"
            /\ stopPhase' \in {"waiting", "failing"}
            /\ stopPhase' = "waiting" =>
                  /\ process # 0
                  /\ stopWait' = process
                  /\ kills' = [kills EXCEPT ![process] = @ + 1] ]_vars
    /\ [][ \A a \in Attempts, code \in ExitCodes, cancelError \in BOOLEAN :
            (ChildExit(a, code, cancelError) /\ stopPhase = "waiting" /\ stopWait = a) =>
                /\ process' = 0 /\ handle' = {}
                /\ Idle'
                /\ stopPhase' = "resolved"
                /\ stopResult' = code ]_vars
    /\ [](stopPhase = "waiting" => (isStopping /\ stopWait # 0 /\ kills[stopWait] >= 1))
    /\ [][ stopPhase' = "resolved" =>
             (stopPhase = "resolved" \/
              (stopPhase = "waiting" /\ child[stopWait] = "alive"
                 /\ child'[stopWait] = "exited")) ]_vars

\* C7 witness: a stop of a running tunnel has resolved with exit code 1 of
\* the child it killed.
C7_Witness ==
    /\ stopPhase = "resolved"
    /\ stopResult = 1
    /\ Idle
    /\ process = 0
    /\ \E a \in Attempts : child[a] = "exited" /\ kills[a] = 1 /\ task[a] = "fulfilled"

\* C8: when the stop sequence rejects, the tunnel is Running again
\* (isRunning true, isStopping false), the promise stop() returned is
\* rejected, and stop() called next is accepted: it does not throw.
C8_StopFailureRevertsToRunning ==
    [][ (stopPhase = "failing" /\ stopPhase' # "failing") =>
            /\ stopPhase' = "rejected"
            /\ isRunning' /\ ~isStopping'
            /\ (StopOutcome = "stop")' ]_vars

\* C8 witness: a stop has been rejected and the tunnel is Running.
C8_Witness ==
    /\ stopPhase = "rejected"
    /\ isRunning
    /\ ~isStopping
    /\ lastCall.op = "stop"
    /\ lastCall.res = "promise"

\* C9: when the start task of an attempt resolves, isStarting is false,
\* isRunning is true and _startTask is null, and 'Ready' has been emitted
\* once for that attempt; it is never emitted for an attempt whose task has
\* not resolved, and never a second time.
C9_ResolvedStartIsRunningAndReady ==
    /\ [][ \A a \in Attempts :
            (task[a] = "pending" /\ task'[a] = "fulfilled") =>
                /\ ~isStarting' /\ isRunning' /\ startTask' = 0
                /\ ReadyCount(a) = 0 /\ ReadyCount(a)' = 1 ]_vars
    /\ [](\A a \in Attempts :
            ReadyCount(a) = (IF task[a] = "fulfilled" THEN 1 ELSE 0))

\* C9 witness: an attempt resolved and the tunnel is Running and has
\* emitted 'Ready' for it.
C9_Witness ==
    \E a \in Attempts :
        /\ task[a] = "fulfilled"
        /\ emitted[a] = <<"Ready">>
        /\ isRunning /\ ~isStarting /\ startTask = 0
        /\ child[a] = "alive"

\* C10: when an attempt's start task rejects (download failure, 'error'
\* event, or exit before READY), the tunnel is neither Starting nor Running
\* and start() called next does not throw but begins a new attempt, with
\* its download step.
C10_FailedStartAllowsRetry ==
    [][ \A a \in Attempts :
            (task[a] = "pending" /\ task'[a] = "rejected") =>
                /\ ~isStarting' /\ ~isRunning'
                /\ (StartOutcome = "new")' ]_vars

\* C10 restricted to attempts that do not overlap another one.
C10_SingleAttemptAllowsRetry ==
    [][ \A a \in Attempts :
            (task[a] = "pending" /\ task'[a] = "rejected"
               /\ \A b \in Attempts \ {a} : task[b] = "none") =>
                /\ ~isStarting' /\ ~isRunning'
                /\ (StartOutcome = "new")' ]_vars

\* The child whose start task resolved and which the tunnel holds as
\* _process exits while the tunnel is Running and no stop() is in progress.
UnexpectedExit(a) ==
    /\ isRunning /\ ~isStopping
    /\ a = process
    /\ task[a] = "fulfilled"
    /\ \E code \in ExitCodes, cancelError \in BOOLEAN : ChildExit(a, code, cancelError)

\* C11: when the child of a Running tunnel exits without a stop() having
\* been called, the step that handles the 'exit' event clears isRunning;
\* no call is made on the tunnel, the tunnel does not enter Stopping, no
\* stop promise settles and no start task changes state (none is rejected).
C11_UnexpectedExitClearsRunning ==
    [][ \A a \in Attempts :
            UnexpectedExit(a) =>
                /\ ~isRunning' /\ ~isStarting' /\ ~isStopping'
                /\ UNCHANGED <<lastCall, stopVars, task, startTask>> ]_vars

\* C11 witness: the tunnel was Running, its child has exited though it was
\* never killed and stop() was never called, and isRunning is false.
C11_Witness ==
    /\ ~isRunning
    /\ process # 0
    /\ task[process] = "fulfilled"
    /\ child[process] = "exited"
    /\ kills[process] = 0
    /\ stopPhase = "none"
    /\ lastCall.op = "start"

\* C12: when the child of a Running tunnel exits without a stop() having
\* been called, the tunnel emits an event reporting the exit.  The events a
\* Tunnel emits are its status events and the stdout / stderr events, which
\* it emits on 'data' only.
C12_UnexpectedExitEmitsEvent ==
    [][ \A a \in Attempts : UnexpectedExit(a) => emitted' # emitted ]_vars

\* C15: under the detector of the base _start(), a chunk of data on stdout
\* or on stderr that arrives while the start task is unsettled resolves the
\* task in that step ('Ready' is emitted, the tunnel is Running), whether or
\* not the child's 'exit' was seen before; and nothing but such a chunk
\* resolves a start task.
C15_DefaultDetectorResolvesOnData ==
    /\ [][ \A a \in Attempts, stream \in {"stdout", "stderr"} :
            ChildData(a, stream) =>
                /\ task[a] = "pending" /\ task'[a] = "fulfilled"
                /\ isRunning'
                /\ emitted'[a] = emitted[a] \o <<"Ready">> ]_vars
    /\ [][ \A a \in Attempts :
            (task[a] # "fulfilled" /\ task'[a] = "fulfilled") =>
                /\ task[a] = "pending"
                /\ \E stream \in {"stdout", "stderr"} : ChildData(a, stream) ]_vars

\* C15 witness: a start task was resolved by data that arrived after the
\* child's 'exit' had been recorded, its stderr still open.
C15_Witness ==
    \E a \in Attempts :
        /\ task[a] = "fulfilled"
        /\ child[a] = "exited"
        /\ exitCode[a] # NullCode
        /\ stderrOpen[a]
        /\ emitted[a] = <<"Ready">>

FirstMarker(chunk) ==
    LET marked == {i \in DOMAIN chunk :
                      ErrorCapture(chunk[i]) # <<>> \/ chunk[i] = SuccessLine}
        first == CHOOSE i \in marked : \A j \in marked : i <= j
    IN IF marked = {} THEN "none"
       ELSE IF chunk[first] = SuccessLine THEN "success" ELSE "error"

\* What C14 asks of the step that receives the chunk while the start task
\* is unsettled: an '*** Error: <msg>' line coming first rejects with a
\* message containing <msg>, the success phrase coming first resolves, and
\* either way the stdout listener is removed.
FirstMarkerDecides(chunk) ==
    /\ FirstMarker(chunk) = "error" =>
          /\ bsTask' = "rejected"
          /\ \E i \in DOMAIN bsError' : <<bsError'[i]>> = ErrorMatch(chunk)
          /\ ~bsListener'
    /\ FirstMarker(chunk) = "success" =>
          /\ bsTask' = "fulfilled"
          /\ ~bsListener'

\* C14: for the BrowserStack tunnel, of the '*** Error: <msg>' marker and
\* the success phrase on stdout, whichever comes first decides the start
\* task: the error rejects it with a message containing <msg>, the success
\* phrase resolves it, and the stdout listener is removed.
C14_BrowserStackFirstMarkerDecides ==
    [][ \A chunk \in BrowserStackChunks :
            (BrowserStackStdoutData(chunk) /\ bsTask = "pending") =>
                FirstMarkerDecides(chunk) ]_vars

\* C14 for chunks that do not carry the success phrase and an error marker
\* together; a pending task has received no chunk with either.
C14_SeparateChunksFirstMarkerDecides ==
    /\ [][ \A chunk \in BrowserStackChunks :
            (/\ BrowserStackStdoutData(chunk)
             /\ bsTask = "pending"
             /\ ~(HasSuccessPhrase(chunk) /\ ErrorMatch(chunk) # <<>>)) =>
                FirstMarkerDecides(chunk) ]_vars
    /\ [](bsTask = "pending" =>
            /\ bsListener
            /\ \A i \in DOMAIN bsReceived : FirstMarker(bsReceived[i]) = "none")

\* The artifacts call i of download() issued a request for.
Requested(i) == {a \in configs : downloads[i].reqs[a] # "resolved"}

\* Number of requests issued by all download() calls so far.
RequestCount == Cardinality({p \in (DOMAIN downloads) \X configs : p[2] \in Requested(p[1])})

\* C16 as stated: download() without force issues no request for an artifact
\* that is present; two download() calls without force issue at most one
\* request between them; download(true) requests every artifact.
C16_TwoDownloadsAtMostOneRequest ==
    /\ [](\A i \in DOMAIN downloads :
            downloads[i].force => Requested(i) = configs)
    /\ []((Len(downloads) = 2 /\ ~downloads[1].force /\ ~downloads[2].force) =>
            RequestCount <= 1)

\* C16 amended: download() without force issues a request for exactly the
\* artifacts that are neither on disk nor marked noDownload; made when an
\* earlier download() has completed with every request successful, it
\* issues none; download(true) issues a request for every artifact.
C16_DownloadRequestsOnlyMissing ==
    /\ [][ \A forceDownload \in BOOLEAN :
            DownloadCall(forceDownload) =>
                LET new == downloads'[Len(downloads')] IN
                    /\ new.force = forceDownload
                    /\ \A a \in configs :
                          new.reqs[a] = "requested" <=>
                              (forceDownload \/ (a \notin onDisk /\ a \notin noDownload))
                    /\ (/\ ~forceDownload
                        /\ \E i \in DOMAIN downloads :
                              \A a \in configs : downloads[i].reqs[a] \in {"resolved", "done"})
                       => (\A a \in configs : new.reqs[a] = "resolved") ]_vars
    /\ [](\A i \in DOMAIN downloads :
            downloads[i].force => Requested(i) = configs)

\* C16 witness: a download() without force fetched both artifacts of the
\* tunnel, and a second one made afterwards issued no request.
C16_Witness ==
    /\ configs = Artifacts
    /\ Len(downloads) = 2
    /\ ~downloads[1].force /\ ~downloads[2].force
    /\ \A a \in configs : downloads[1].reqs[a] = "done"
    /\ Requested(2) = {}

\* The error requestNewSession is called with when the upstream request
\* cannot connect.
ConnectionError ==
    WebDriverErrorFactory("session not created", "WebDriver connection error: %s")

\* A driver reply that was read and holds no session id: the body is null,
\* or the search through id, sessionId and value ends without a value that
\* can serve as an id.
LacksSessionId(data) ==
    \/ ~Truthy(data)
    \/ /\ ~GetSessionIdFromBody(data).throws
       /\ ~Truthy(GetSessionIdFromBody(data).value)

\* A body of the form {value: {error, message}}.
IsStructuredError(body) ==
    /\ body.type = "object"
    /\ "value" \in DOMAIN body.obj
    /\ body.obj.value.type = "object"
    /\ {"error", "message"} \subseteq DOMAIN body.obj.value.obj

\* C17: when the reply to a forwarded new-session request holds a session
\* id (the first of id, sessionId, or the same search in value), the proxy
\* maps that id to the driver the request was forwarded to, stores the
\* payload as the driver's session info and answers the client with the
\* payload as it was received.
C17_SuccessfulReplyRegistersSession ==
    [][ \A r \in Requests, data \in Payloads :
            (/\ UpstreamReplies(r, data)
             /\ Truthy(data)
             /\ ~GetSessionIdFromBody(data).throws
             /\ Truthy(GetSessionIdFromBody(data).value)) =>
                /\ webDriverMap'[GetSessionIdFromBody(data).value.str] = r
                /\ webDrivers'[r].sessionInfo = data
                /\ requests'[r].phase = "responded"
                /\ requests'[r].response = [status |-> 200, body |-> data] ]_vars

\* C17 witness: a W3C reply, whose session id is inside value, registered
\* session s2 for the driver of the request and was passed on.
C17_Witness ==
    \E r \in Requests :
        /\ webDriverMap["s2"] = r
        /\ requests[r].response.status = 200
        /\ requests[r].response.body = webDrivers[r].sessionInfo
        /\ "sessionId" \notin DOMAIN webDrivers[r].sessionInfo.obj
        /\ webDrivers[r].sessionInfo.obj.value.obj.sessionId = JStr("s2")

C19_LimitStopsDriverAndAnswers500 ==
    /\ [][ \A r \in Requests :
            (/\ webDrivers[r].failedInitAttempts < maxConnectAttempts
             /\ webDrivers'[r].failedInitAttempts >= maxConnectAttempts) =>
                /\ webDrivers'[r].stops = webDrivers[r].stops + 1
                /\ requests'[r].phase = "responded"
                /\ requests'[r].response.status = 500
                /\ IsStructuredError(requests'[r].response.body)
                /\ \/ UpstreamError(r) /\ requests'[r].response.body = ConnectionError
                   \/ \E data \in Payloads :
                        /\ UpstreamReplies(r, data)
                        /\ requests'[r].response.body =
                              HandleNewSessionResponse(data).errorResponse ]_vars
    /\ [](\A r \in Requests :
            webDrivers[r].failedInitAttempts >= maxConnectAttempts =>
                /\ webDrivers[r].stops = 1
                /\ requests[r].response.status = 500
                /\ \A s \in SessionIds : webDriverMap[s] # r)
    /\ [](\A r \in Requests :
            webDrivers[r].stops > 0 =>
                webDrivers[r].failedInitAttempts >= maxConnectAttempts)

\* C19 witness: with a limit of 3, a driver failed three times, the last
\* time with an error reply of its own; it was stopped and the reply is the
\* body of the 500 response.
C19_Witness ==
    \E r \in Requests :
        /\ maxConnectAttempts = 3
        /\ webDrivers[r].failedInitAttempts = 3
        /\ webDrivers[r].stops = 1
        /\ requests[r].response.status = 500
        /\ requests[r].response.body.obj.value.obj.message =
              JStr("cannot find the browser binary")

\* C20: a new-session request sends at most maxConnectAttempts requests
\* upstream, failedInitAttempts never exceeds maxConnectAttempts, and once
\* the request has a driver it is waiting for an upstream reply or has
\* been answered 200 or 500: the loop never ends without a response.
C20_RetryLoopBoundedAndAnswered ==
    \A r \in Requests :
        /\ requests[r].upstream <= maxConnectAttempts
        /\ webDrivers[r].failedInitAttempts <= maxConnectAttempts
        /\ webDrivers[r].spawned =>
              \/ requests[r].phase = "upstream"
              \/ requests[r].phase = "responded" /\ requests[r].response.status \in {200, 500}

\* The bounds of C20 alone, with the measure that makes the loop finite:
\* every upstream request in flight has fewer than maxConnectAttempts
\* failures behind it, and each failure adds one.
C20_RetryLoopBounded ==
    \A r \in Requests :
        /\ requests[r].upstream <= maxConnectAttempts
        /\ webDrivers[r].failedInitAttempts <= maxConnectAttempts
        /\ requests[r].phase = "upstream" =>
              /\ webDrivers[r].failedInitAttempts < maxConnectAttempts
              /\ requests[r].upstream = webDrivers[r].failedInitAttempts + 1

\* C21: a new-session request whose body has no desiredCapabilities
\* .browserName has been answered with status 500 and a body
\* {value: {error, message}} when its handler returns, and no driver is
\* spawned for it.
C21_MissingBrowserNameAnswered500 ==
    \A r \in Requests :
        requests[r].phase = "dropped" =>
            /\ requests[r].response.status = 500
            /\ IsStructuredError(requests[r].response.body)
            /\ webDrivers[r].process = "none"

\* The part of C21 about the driver alone: a request without a browserName
\* calls no factory, spawns no process and takes no port.
C21_MissingBrowserNameSpawnsNothing ==
    [][ \A r \in Requests :
            CreateSession(r, "") =>
                /\ requests'[r].factoryCalls = 0
                /\ webDrivers'[r] = NoWebDriver
                /\ lastUsedPort' = lastUsedPort ]_vars

\* The elements of a sequence.
Range(seq) == {seq[i] : i \in DOMAIN seq}

\* Session id s is in the map and its driver has cached session info.
Listed(s) == InWebDriverMap(s) /\ Truthy(webDrivers[webDriverMap[s]].sessionInfo)

\* The payloads a list of sessions has to hold: the cached session info of
\* the listed ids.
CachedPayloads == {webDrivers[webDriverMap[s]].sessionInfo : s \in {t \in SessionIds : Listed(t)}}

\* C22: GET {path}sessions is answered 200 with, once each, the cached
\* payloads of the sessions in the map that have cached info, and nothing
\* else, and no driver is contacted; a successful new-session puts its
\* payload in that list, and an id leaves the list only by a DELETE of the
\* session or when stop() empties the map.
C22_GetSessionsListsCachedPayloads ==
    /\ [][ GetSessionsRequest =>
            /\ exchange'.kind = "sessions"
            /\ exchange'.status = 200
            /\ exchange'.port = 0
            /\ Range(exchange'.sessions) = CachedPayloads
            /\ Len(exchange'.sessions) = Cardinality({s \in SessionIds : Listed(s)})
            /\ UNCHANGED <<requests, webDrivers, webDriverMap>> ]_vars
    /\ [](Range(GetSessions) = CachedPayloads)
    /\ [][ \A r \in Requests, data \in RoutePayloads :
            (UpstreamReplies(r, data) /\ requests'[r].response.status = 200) =>
                /\ Listed(GetSessionIdFromBody(data).value.str)'
                /\ data \in CachedPayloads' ]_vars
    /\ [][ \A s \in SessionIds :
            (Listed(s) /\ ~Listed(s)') =>
                \/ \E connects \in BOOLEAN :
                      DeleteRequest(ProxyPath \o <<"session", s>>, connects)
                \/ \E failing \in SUBSET Requests : ProxyStop(failing) ]_vars

\* C22 witness: two sessions are in the map, the info of one has been
\* deleted, and the list the proxy gave last holds the payload of the other
\* alone.
C22_Witness ==
    /\ exchange.kind = "sessions"
    /\ \A s \in SessionIds : InWebDriverMap(s)
    /\ Len(exchange.sessions) = 1
    /\ exchange.sessions = GetSessions
    /\ \E s \in SessionIds : ~Listed(s)

\* The path of a request for session s.
SessionPath(s) == ProxyPath \o <<"session", s>>

Creators(s) ==
    {r \in Requests :
        /\ requests[r].response.status = 200
        /\ GetSessionIdFromBody(requests[r].response.body).value = JStr(s)}

\* C24: a request other than a new-session request whose path holds a
\* session id of the map is sent to http://localhost:{port} of a driver
\* that created that session, the port of no other driver, with the proxy
\* path taken off the path.
C24_ForwardedToOwningDriver ==
    [][ \A s \in SessionIds, connects \in BOOLEAN :
            (/\ InWebDriverMap(s)
             /\ \/ ForwardRequest(SessionPath(s), connects)
                \/ DeleteRequest(SessionPath(s), connects)) =>
                /\ exchange'.sessionId = s
                /\ webDriverMap[s] \in Creators(s)
                /\ exchange'.port = webDrivers[webDriverMap[s]].port
                /\ exchange'.port > BasePort
                /\ \A r \in Requests \ {webDriverMap[s]} :
                      exchange'.port # webDrivers[r].port
                /\ exchange'.path = <<"session", s>> ]_vars

\* C24 witness: two sessions of two drivers are in the map, and the latest
\* request, for the session of the driver spawned first, went to the port
\* of that driver.
C24_Witness ==
    /\ webDriverMap["s1"] # 0
    /\ webDriverMap["s2"] # 0
    /\ webDriverMap["s1"] # webDriverMap["s2"]
    /\ exchange.kind = "forward"
    /\ exchange.status = 200
    /\ exchange.port = BasePort + 1
    /\ lastUsedPort = BasePort + 2
    /\ \E s \in SessionIds :
          exchange.sessionId = s /\ webDrivers[webDriverMap[s]].port = BasePort + 1

\* C25: stop() issues a stop against the driver of every entry of the
\* session map, whether or not kill() fails for some of them, and against
\* no other driver; it empties the map; its promise is resolved only when
\* the listener has closed (or there is none), and the close of the
\* listener resolves it whatever the state of the driver processes.
C25_StopStopsMappedDriversAndResolvesOnClose ==
    /\ [][ \A failing \in SUBSET Requests :
            ProxyStop(failing) =>
                /\ \A r \in Requests :
                      webDrivers'[r].stops =
                          webDrivers[r].stops + (IF r \in MappedDrivers THEN 1 ELSE 0)
                /\ \A r \in MappedDrivers \ failing :
                      webDrivers[r].process = "alive" => webDrivers'[r].process = "killed"
                /\ \A s \in SessionIds : webDriverMap'[s] = 0
                /\ stopPromise' = IF httpServer = "listening" THEN "pending" ELSE "resolved"
                /\ httpServer = "listening" => httpServer' = "closing" ]_vars
    /\ [](stopPromise = "resolved" => httpServer \in {"none", "closed"})
    /\ [](httpServer = "closing" => stopPromise = "pending")
    /\ [][ (httpServer = "closing" /\ httpServer' = "closed") =>
                /\ stopPromise' = "resolved"
                /\ webDrivers' = webDrivers ]_vars

\* C25 witness: stop() has resolved after the listener closed; it stopped
\* the drivers of two sessions, of which one got no signal because kill()
\* failed and the other got the signal and has not exited.
C25_Witness ==
    /\ stopPromise = "resolved"
    /\ httpServer = "closed"
    /\ \A s \in SessionIds : webDriverMap[s] = 0
    /\ \E r, q \in Requests :
          /\ requests[r].response.status = 200
          /\ requests[q].response.status = 200
          /\ webDrivers[r].stops = 1
          /\ webDrivers[q].stops = 1
          /\ webDrivers[r].process = "alive"
          /\ webDrivers[q].process = "killed"

\* The drivers that have been given a port, that is, have been spawned.
Spawned == {r \in Requests : webDrivers[r].port # 0}

\* C26: the factory hands a spawned driver the port lastUsedPort + 1 and
\* stores it, beginning at the base port + 1: each port is greater than
\* every port handed out before, no two drivers ever have the same port,
\* and a driver spawned after another of the same browser failed to start
\* has a port of its own.
C26_PortsStrictlyIncreasing ==
    /\ [][ \A r \in Requests, browserName \in BrowserNameInputs :
            (CreateSession(r, browserName) /\ webDrivers'[r].port # 0) =>
                /\ webDrivers'[r].port = lastUsedPort + 1
                /\ lastUsedPort' = webDrivers'[r].port
                /\ \A q \in Spawned : webDrivers[q].port < webDrivers'[r].port ]_vars
    /\ [][ \A r \in Spawned : webDrivers'[r].port = webDrivers[r].port ]_vars
    /\ [][ lastUsedPort' >= lastUsedPort ]_vars
    /\ [](lastUsedPort = BasePort + Cardinality(Spawned))
    /\ [](\A r \in Spawned : webDrivers[r].port > BasePort)
    /\ [](\A r, q \in Spawned : r # q => webDrivers[r].port # webDrivers[q].port)

\* C26 witness: the first chrome driver, on port base + 1, failed to start;
\* the chrome driver spawned for the next request has port base + 2.
C26_Witness ==
    \E r, q \in Requests :
        /\ webDrivers[r].name = "chrome"
        /\ webDrivers[r].port = BasePort + 1
        /\ webDrivers[r].process = "exited"
        /\ ~webDrivers[r].spawned
        /\ requests[r].response.status = 500
        /\ webDrivers[q].name = "chrome"
        /\ webDrivers[q].port = BasePort + 2
        /\ webDrivers[q].process = "alive"

\* The processes of a browser kind that are running and have not been sent
\* a signal.
Live(browserName) ==
    {r \in Requests : webDrivers[r].name = browserName /\ webDrivers[r].process = "alive"}

\* C27, as stated: at most one live driver process exists for a browser
\* kind.
C27_OneLiveProcessPerKind ==
    \A browserName \in ConfiguredBrowsers : Cardinality(Live(browserName)) <= 1

\* C27, amended: every new-session request that names a configured browser
\* makes the factory spawn a process of its own on a new port, whatever
\* processes of that browser are alive; no driver is handed to two
\* requests.
C27_EveryRequestSpawnsItsOwnProcess ==
    /\ [][ \A r \in Requests, browserName \in ConfiguredBrowsers :
            CreateSession(r, browserName) =>
                /\ webDrivers[r].process = "none"
                /\ webDrivers'[r].process = "alive"
                /\ webDrivers'[r].name = browserName
                /\ webDrivers'[r].port = lastUsedPort + 1
                /\ requests'[r].phase = "factory"
                /\ Live(browserName)' = Live(browserName) \cup {r}
                /\ \A q \in Requests \ {r} : webDrivers'[q] = webDrivers[q] ]_vars
    /\ [](\A r \in Requests :
            requests[r].phase \in {"factory", "upstream"} =>
                /\ webDrivers[r].port # 0
                /\ \A q \in Requests \ {r} : webDrivers[q].port # webDrivers[r].port)

\* C27 witness: two chrome processes are alive, each on its own port; the
\* first has a session, the second has been spawned for the next request.
C27_Witness ==
    /\ Live("chrome") = {1, 2}
    /\ webDrivers[1].port # webDrivers[2].port
    /\ webDriverMap["s1"] = 1
    /\ requests[2].phase = "factory"

\* C28: an 'error' event of the child that arrives while the driver-creation
\* task is pending rejects the task, and the promise createWebDriverChild
\* returned, with the error of the event; a start-up failure is reported
\* through the same rejection; a rejected task is never resolved, by the
\* timer or by anything else, and keeps its error.
C28_SpawnErrorRejectsForGood ==
    /\ [][ (DriverChildErrorEvent /\ dcTask = "pending") =>
              /\ dcTask' = "rejected"
              /\ dcError' = SpawnError
              /\ dcWebDriver' = [state |-> "rejected", error |-> SpawnError] ]_vars
    /\ [][ dcTask = "rejected" =>
              /\ dcTask' = "rejected"
              /\ dcError' = dcError
              /\ dcWebDriver' = dcWebDriver ]_vars
    /\ [](dcTask = "rejected" =>
              /\ dcError.reason \in {"spawn ENOENT", "Tunnel failed to start"}
              /\ dcWebDriver = [state |-> "rejected", error |-> dcError])

\* C28 witness: the task was rejected with the spawn error, and the timer
\* of the executor has fired and stderr has closed since.
C28_Witness ==
    /\ dcChild = "failed"
    /\ dcTask = "rejected"
    /\ dcError = SpawnError
    /\ dcWebDriver = [state |-> "rejected", error |-> SpawnError]
    /\ dcTimer = "fired"
    /\ dcStderrClosed

\* The start task of the Selenium tunnel was rejected by handleChildExit.
FailedToStartRejected == selTask = "rejected" /\ selError = "Tunnel failed to start"

\* C29: the task is rejected with 'Tunnel failed to start' only when both
\* the 'exit' of the child and the 'close' of its stderr have been seen,
\* on the step that brings the second of the two, whichever it is (an
\* 'exit' after the close; a close after an 'exit' that stored a code);
\* the text of the rejection holds every chunk the child wrote to stderr,
\* those written after the 'exit' included.
C29_RejectsAfterExitAndCloseWithAllChunks ==
    /\ [](FailedToStartRejected =>
            /\ selChild = "exited"
            /\ ~selStderrOpen
            /\ selDetail.reason = "Tunnel failed to start"
            /\ selDetail.text = selReceived
            /\ selReceived # <<>> => selDetail.detail = "stderr")
    /\ [][ (selTask = "pending" /\ FailedToStartRejected') =>
            /\ selChild # "exited" \/ selStderrOpen
            /\ \/ \E code \in ExitCodes : SeleniumChildExit(code)
               \/ SeleniumStderrClose ]_vars
    /\ [][ \A code \in ExitCodes :
            (SeleniumChildExit(code) /\ selTask = "pending" /\ ~selStderrOpen) =>
                FailedToStartRejected' ]_vars
    /\ [][ (/\ SeleniumStderrClose
            /\ selTask = "pending"
            /\ selChild = "exited"
            /\ selExitCode # NullCode) => FailedToStartRejected' ]_vars

\* C29 witness: the child exited after one chunk, wrote a second chunk, and
\* the close of stderr rejected the task with both chunks in the text.
C29_Witness ==
    /\ FailedToStartRejected
    /\ selExitAt = 1
    /\ Len(selReceived) = 2
    /\ selDetail.detail = "stderr"
    /\ selDetail.text = selReceived

\* The diagnostic the rejection of an exited child is to carry: the stderr
\* text if there is any, the code of the 'exit' event otherwise.
ExitDiagnostic ==
    IF selReceived # <<>>
    THEN [reason |-> "Tunnel failed to start", detail |-> "stderr",
          text |-> selReceived, code |-> NullCode]
    ELSE [reason |-> "Tunnel failed to start", detail |-> "exit code",
          text |-> <<>>, code |-> selExitCode]

\* C30, as stated: once a child that exited while the task was pending has
\* exited and closed its stderr the task is no longer pending, and a
\* rejection with 'Tunnel failed to start' carries the stderr text, or
\* the exit code if there is no text.
C30_ExitWhileWaitingRejectsWithDiagnostic ==
    /\ (selChild = "exited" /\ ~selStderrOpen) => selTask # "pending"
    /\ FailedToStartRejected => selDetail = ExitDiagnostic

\* C30, the part that holds: a child that exits with a number as its code
\* while the task is pending has the task rejected, with that diagnostic,
\* as soon as its stderr has closed too.
C30_NumberedExitRejectsWithDiagnostic ==
    /\ (selChild = "exited" /\ ~selStderrOpen /\ selExitCode # NullCode) =>
            selTask # "pending"
    /\ FailedToStartRejected => selDetail = ExitDiagnostic

\* A child killed by a signal, its 'exit' seen before the close of its
\* stderr: the task stays pending.
C30_SignalledChildLeftPending ==
    /\ selChild = "exited"
    /\ ~selStderrOpen
    /\ selExitCode = NullCode
    /\ selExitAt >= 0
    /\ selTask = "pending"

\* Number of 'Failed to start tunnel' status events emitted for attempt a.
FailedCount(a) ==
    Cardinality({i \in DOMAIN emitted[a] : emitted[a][i] = "Failed to start tunnel"})

C32_TimerResolvesSilentDriverOnly ==
    /\ [](dcTask = "pending" =>
            /\ dcTimer = "armed"
            /\ dcWritten = 0
            /\ dcChild \in {"alive", "exited"}
            /\ ~(dcExitted /\ dcStderrClosed))
    /\ [][ (DriverTimerFires /\ dcTask = "pending") =>
            /\ dcTask' = "fulfilled"
            /\ dcWebDriver' = [state |-> "resolved", error |-> NoError] ]_vars
    /\ [][ (DriverTimerFires /\ dcTask = "rejected") =>
            /\ dcTask' = "rejected"
            /\ UNCHANGED <<dcError, dcWebDriver>> ]_vars
    /\ (dcTask = "pending" ~> dcTask # "pending")

\* C32 witness: a driver that wrote nothing and is alive was made ready by
\* its timer.
C32_Witness ==
    /\ dcWritten = 0
    /\ dcChild = "alive"
    /\ ~dcStderrClosed
    /\ dcTimer = "fired"
    /\ dcTask = "fulfilled"
    /\ dcWebDriver = [state |-> "resolved", error |-> NoError]

InFlight == {a \in Attempts : task[a] = "pending"}

\* C34: at most one start attempt is in flight, and while an attempt is
\* in flight isStarting is set and _startTask is its task.
C34_OneAttemptInFlight ==
    /\ Cardinality(InFlight) <= 1
    /\ \A a \in InFlight : isStarting /\ startTask = a

\* C34 with the 'exit' of a child before its attempt has settled ruled
\* out: every step but the 'exit' of a child whose start task is pending
\* keeps one attempt at most in flight, with the flags of that attempt.
C34_OnlyEarlyExitBreaksOneAttempt ==
    [][ (/\ C34_OneAttemptInFlight
         /\ ~\E a \in InFlight, code \in ExitCodes, cancelError \in BOOLEAN :
                ChildExit(a, code, cancelError)) => C34_OneAttemptInFlight' ]_vars

\* The child of attempt 1 exited with its stderr open, start() began
\* attempt 2, and the rejection of attempt 1 cleared isStarting and
\* _startTask while attempt 2 is in flight.
C34_LateRejectionClearsNewAttempt ==
    /\ nAttempts = MaxAttempts
    /\ task[1] = "rejected"
    /\ child[1] = "exited"
    /\ task[MaxAttempts] = "pending"
    /\ ~isStarting
    /\ startTask = 0

\* C35: once the child of an attempt has exited and its stderr has closed,
\* in whichever order and whatever code the 'exit' carried, the start task
\* of the attempt is no longer pending.
C35_GoneChildSettlesStart ==
    \A a \in Attempts : (child[a] = "exited" /\ ~stderrOpen[a]) => task[a] # "pending"

\* C35, the order that works: an 'exit' that arrives after stderr has
\* closed rejects the pending start task, also when its code is null.
C35_ExitAfterCloseRejects ==
    [][ \A a \in Attempts, cancelError \in BOOLEAN :
            (/\ ChildExit(a, NullCode, cancelError)
             /\ task[a] = "pending"
             /\ ~stderrOpen[a]) => task'[a] = "rejected" ]_vars

\* A child ended by a signal, its 'exit' seen before the close of its
\* stderr: the start task is pending and no event of the child is left.
C35_StartPendingForever ==
    \E a \in Attempts :
        /\ child[a] = "exited"
        /\ ~stderrOpen[a]
        /\ exitCode[a] = NullCode
        /\ kills[a] = 0
        /\ task[a] = "pending"

\* C36: the finally step of a cancelled start task, once it waits for the
\* 'exit' of the child, completes at some time, given that every child
\* exits and closes its stderr at some time.
C36_CancelEventuallyCompletes ==
    \A a \in Attempts : [](fin[a] = "waiting" => <>(fin[a] = "done"))

\* C36, the part that holds: the finally step of a task that was cancelled
\* while its child was alive completes.
C36_CancelOfLiveChildCompletes ==
    \A a \in Attempts :
        [](fin[a] = "waiting" /\ child[a] = "alive" => <>(fin[a] = "done"))

\* A start task cancelled after its child had exited, its stderr open: the
\* finally step waits for an 'exit' event that has been emitted already.
C36_WaitsForExitThatIsPast ==
    \E a \in Attempts :
        /\ task[a] = "canceled"
        /\ child[a] = "exited"
        /\ fin[a] = "waiting"

\* C37: every new-session request the proxy has accepted is answered at
\* some time, given that the factory and the drivers settle what is asked
\* of them.
C37_EveryRequestAnswered ==
    \A r \in Requests :
        [](requests[r].phase # "none" => <>(requests[r].phase = "responded"))

\* C37, the part that holds: a request for which a driver was asked for
\* is answered at some time unless a reply of its driver could not be
\* handled.
C37_AnsweredUnlessReplyUnhandled ==
    \A r \in Requests :
        [](requests[r].phase \in {"factory", "upstream"} =>
              <>(requests[r].phase \in {"responded", "abandoned"}))

\* A request without a browserName and a request whose driver sent a reply
\* that could not be handled: both handlers have ended and neither request
\* has a response.
C37_RequestsLeftUnanswered ==
    \E r, q \in Requests :
        /\ requests[r].phase = "dropped"
        /\ requests[q].phase = "abandoned"
        /\ requests[r].response.status = 0
        /\ requests[q].response.status = 0

\* C38: once stop() has been called, every driver process the factory has
\* spawned that has not exited has had a stop issued against it, and the
\* session map holds no session.
C38_StopReachesEveryDriver ==
    stopPromise # "none" =>
        /\ \A r \in Requests :
              webDrivers[r].process \in {"alive", "killed"} => webDrivers[r].stops >= 1
        /\ \A s \in SessionIds : ~InWebDriverMap(s)

\* C38, the part that holds: the stop() call itself issues a stop against
\* every driver of the map and leaves the map empty.
C38_StopReachesMappedDrivers ==
    [][ \A failing \in SUBSET Requests :
            ProxyStop(failing) =>
                /\ \A r \in MappedDrivers : webDrivers'[r].stops = webDrivers[r].stops + 1
                /\ \A s \in SessionIds : ~InWebDriverMap(s)' ]_vars

\* stop() has resolved; a driver whose session was created after the call
\* is in the map, alive, and no stop was ever issued against it.
C38_DriverOutlivesStop ==
    \E s \in SessionIds :
        /\ stopPromise = "resolved"
        /\ InWebDriverMap(s)
        /\ webDrivers[webDriverMap[s]].process = "alive"
        /\ webDrivers[webDriverMap[s]].stops = 0

\* C39: the child of a rejected start attempt that is still alive has been
\* sent a signal, or is the process a stop() call would stop now.
C39_RejectedStartLeavesNoChild ==
    \A a \in Attempts :
        (task[a] = "rejected" /\ child[a] = "alive") =>
            \/ kills[a] >= 1
            \/ process = a /\ StopOutcome = "stop"

\* What the code does instead: when the detector rejects the first
\* attempt of a tunnel while its child is alive, no signal is sent, the
\* child stays alive, and stop() called next throws.
C39_DetectorFailureLeavesChildAlone ==
    [][ \A a \in Attempts, stream \in {"stdout", "stderr"} :
            (DetectorFails(a, stream) /\ child[a] = "alive" /\ nAttempts = 1) =>
                /\ kills'[a] = kills[a]
                /\ child'[a] = "alive"
                /\ (StopOutcome = "Tunnel is not running")' ]_vars

\* The detector rejected attempt 1, whose child is alive and was never
\* signalled; stop() throws 'Tunnel is not running', and a later start()
\* has made another child the process of the tunnel.
C39_ChildLeftBehind ==
    /\ task[1] = "rejected"
    /\ child[1] = "alive"
    /\ kills[1] = 0
    /\ process = MaxAttempts
    /\ isRunning
    /\ lastCall.op = "stop"

\* C40: isRunning is set only while the child of the tunnel is alive.
C40_RunningOnlyWhileChildAlive ==
    isRunning => process # 0 /\ child[process] = "alive"

\* C40, the part that holds: the 'exit' of the tunnel's child leaves
\* isRunning false, and nothing but the success handler of start() and the
\* failure handler of stop() ever sets it.
C40_ExitClearsAndTwoHandlersSetRunning ==
    /\ [][ \A a \in handle, code \in ExitCodes, cancelError \in BOOLEAN :
            ChildExit(a, code, cancelError) => ~isRunning' ]_vars
    /\ [][ (~isRunning /\ isRunning') =>
            \/ StopRejects
            \/ \E a \in Attempts : task[a] = "pending" /\ task'[a] = "fulfilled" ]_vars

\* A failed stop() after the child had exited: the failure handler has set
\* isRunning, the only attempt is ready and its child is gone.
C40_RunningWithoutChild ==
    /\ isRunning
    /\ nAttempts = 1
    /\ task[1] = "fulfilled"
    /\ child[1] = "exited"
    /\ stopPhase = "rejected"

====
